---------------------------- MODULE Spec2Model ----------------------------
(* Model of podsee-marine-parade: the click-redirect endpoint (api/r.js),  *)
(* the centre modal's outbound clicks, the comment data access layer and   *)
(* the comment section's view-filter / pagination state.                   *)
(* Strings are sequences of one-character strings so that parsing,         *)
(* encoding and sanitising are computed character by character.            *)
EXTENDS Integers, Sequences, FiniteSets, TLC

VARIABLES
  env,        \* process.env.CLICK_LOG_WEBHOOK_URL: a string or JsUndef
  reqs,       \* requests answered by the redirect handler, in order
  centre,     \* the centre prop of the open CentreModal, or JsUndef
  opened,     \* window.open(url) calls made by the centre modal, in order
  viteEnv,    \* import.meta.env.VITE_CLICK_LOG_WEBHOOK_URL of the client build
  pings,      \* webhook calls made by trackClick of CentreModal.jsx
  comments,   \* the rows of the backend's comments table
  nextId,     \* the next comment_id / created_at the backend hands out
  calls,      \* the createComment calls: position, locals and result of each
  viewFilter,      \* CommentSection state: 'all' or the key of an offering
  contentOpacity,  \* CommentSection state: opacity of the reviews area
  fadeTimeoutRef,  \* fadeTimeoutRef.current: id of the last timer set, or NoTimer
  timers,          \* the timers set by setTimeout that have neither fired nor been cleared
  loading,         \* CommentSection state
  loadingMore,     \* CommentSection state
  viewError,       \* CommentSection state error
  list,            \* CommentSection state comments: the pages shown, in order
  hasMore,         \* CommentSection state
  offset,          \* CommentSection state
  scroll,          \* scrollTop of the reviews area, savedScrollTop, userScrolledDuringLoad
  fetches,         \* fetchComments calls awaiting their answer
  sinceSelection,  \* ms since the last selection in the view selector, up to FadeDelay
  history,         \* the selections, filter swaps and loads so far, in order
  served,          \* the last read or admin call of commentService: arguments, answers, result
  write            \* CommentSection write flow: offerings, username, prompt, class, input, submission

clickVars == <<env, reqs, centre, opened, viteEnv, pings>>
storeVars == <<comments, nextId, calls>>
viewVars == <<viewFilter, contentOpacity, fadeTimeoutRef, timers, loading, loadingMore,
              viewError, list, hasMore, offset, scroll, fetches, sinceSelection, history>>
vars == <<env, reqs, centre, opened, viteEnv, pings, comments, nextId, calls, served,
          viewFilter, contentOpacity, fadeTimeoutRef, timers, loading, loadingMore,
          viewError, list, hasMore, offset, scroll, fetches, sinceSelection, history,
          write>>

-----------------------------------------------------------------------------
(* Character classes and string helpers                                    *)

UpperSeq == <<"A","B","C","D","E","F","G","H","I","J","K","L","M",
              "N","O","P","Q","R","S","T","U","V","W","X","Y","Z">>
LowerSeq == <<"a","b","c","d","e","f","g","h","i","j","k","l","m",
              "n","o","p","q","r","s","t","u","v","w","x","y","z">>
DigitSeq == <<"0","1","2","3","4","5","6","7","8","9">>

Range(s) == {s[i] : i \in DOMAIN s}

Upper == Range(UpperSeq)
Lower == Range(LowerSeq)
Digit == Range(DigitSeq)
Alpha == Upper \cup Lower
AlNum == Alpha \cup Digit

\* \s of a JavaScript regular expression, and what String.prototype.trim strips
WhiteSpace == {" ", "\t", "\n"}

IndexIn(seq, c) == CHOOSE i \in DOMAIN seq : seq[i] = c

toLowerCaseChar(c) == IF c \in Upper THEN LowerSeq[IndexIn(UpperSeq, c)] ELSE c

toLowerCase(s) == [i \in DOMAIN s |-> toLowerCaseChar(s[i])]

\* s.slice(from) with a 1-based index
Drop(s, n) == IF n >= Len(s) THEN <<>> ELSE SubSeq(s, n + 1, Len(s))
Take(s, n) == IF n <= 0 THEN <<>> ELSE SubSeq(s, 1, IF n > Len(s) THEN Len(s) ELSE n)

\* true iff p occurs in s at 1-based position i
MatchAt(s, p, i) ==
  /\ i >= 1
  /\ i + Len(p) - 1 <= Len(s)
  /\ \A k \in 1..Len(p) : s[i + k - 1] = p[k]

StartsWith(s, p) == MatchAt(s, p, 1)

\* s.includes(p)
Includes(s, p) == \E i \in 1..(Len(s) + 1) : MatchAt(s, p, i)

\* position of the first character of s that is in set cs, or 0
FirstIn(s, cs) ==
  IF \E i \in DOMAIN s : s[i] \in cs
  THEN CHOOSE i \in DOMAIN s : s[i] \in cs /\ \A j \in 1..(i - 1) : s[j] \notin cs
  ELSE 0

\* String.prototype.trim
trim(s) ==
  IF \A i \in DOMAIN s : s[i] \in WhiteSpace THEN <<>>
  ELSE LET a == CHOOSE i \in DOMAIN s :
                  s[i] \notin WhiteSpace /\ \A j \in 1..(i - 1) : s[j] \in WhiteSpace
           b == CHOOSE i \in DOMAIN s :
                  s[i] \notin WhiteSpace /\ \A j \in (i + 1)..Len(s) : s[j] \in WhiteSpace
       IN SubSeq(s, a, b)

\* s.replace(/\s/g, '')
RECURSIVE stripWhitespace(_)
stripWhitespace(s) ==
  IF s = <<>> THEN <<>>
  ELSE IF Head(s) \in WhiteSpace THEN stripWhitespace(Tail(s))
  ELSE <<Head(s)>> \o stripWhitespace(Tail(s))

-----------------------------------------------------------------------------
(* new URL(destination) of api/r.js line 13: the WHATWG URL parser with no *)
(* base URL, for inputs without userinfo, IPv4/IPv6 hosts or backslashes.  *)

\* the parser first strips leading and trailing C0 control or space ...
urlTrim(s) == trim(s)

\* ... and removes every ASCII tab or newline
RECURSIVE urlStripTabNewline(_)
urlStripTabNewline(s) ==
  IF s = <<>> THEN <<>>
  ELSE IF Head(s) \in {"\t", "\n"} THEN urlStripTabNewline(Tail(s))
  ELSE <<Head(s)>> \o urlStripTabNewline(Tail(s))

\* scheme start state / scheme state: the index of the ':' ending a scheme, or 0
\* (no scheme: without a base URL the parse fails)
urlSchemeEnd(s) ==
  LET c == FirstIn(s, {":"})
  IN IF /\ c >= 2
        /\ s[1] \in Alpha
        /\ \A i \in 2..(c - 1) : s[i] \in AlNum \cup {"+", "-", "."}
     THEN c ELSE 0

S_http  == <<"h","t","t","p">>
S_https == <<"h","t","t","p","s">>
S_ftp   == <<"f","t","p">>
S_file  == <<"f","i","l","e">>
S_ws    == <<"w","s">>
S_wss   == <<"w","s","s">>

\* special schemes that need a non-empty host
urlSpecialWithHost == {S_http, S_https, S_ftp, S_ws, S_wss}

\* forbidden host code points (those of the model's alphabet)
urlForbiddenHost == {" ", "<", ">", "^", "|"}

RECURSIVE urlSkipSlashes(_)
urlSkipSlashes(s) ==
  IF s # <<>> /\ Head(s) = "/" THEN urlSkipSlashes(Tail(s)) ELSE s

MaxPort == 65535

RECURSIVE toNumber(_)
toNumber(ds) ==
  IF ds = <<>> THEN 0
  ELSE 10 * toNumber(Take(ds, Len(ds) - 1)) + (IndexIn(DigitSeq, ds[Len(ds)]) - 1)

\* authority state, host state and port state for a special scheme
urlAuthorityOk(rest) ==
  LET r     == urlSkipSlashes(rest)
      e     == FirstIn(r, {"/", "?", "#"})
      auth  == IF e = 0 THEN r ELSE Take(r, e - 1)
      c     == FirstIn(auth, {":"})
      host  == IF c = 0 THEN auth ELSE Take(auth, c - 1)
      port  == IF c = 0 THEN <<>> ELSE Drop(auth, c)
  IN /\ host # <<>>
     /\ \A i \in DOMAIN host : host[i] \notin urlForbiddenHost
     /\ \A i \in DOMAIN port : port[i] \in Digit
     /\ toNumber(port) <= MaxPort

\* new URL(input): [ok |-> parsed without throwing, protocol |-> parsedUrl.protocol]
newURL(input) ==
  LET s == urlStripTabNewline(urlTrim(input))
      c == urlSchemeEnd(s)
      scheme == toLowerCase(Take(s, c - 1))
  IN IF c = 0 THEN [ok |-> FALSE, protocol |-> <<>>]
     ELSE IF scheme \in urlSpecialWithHost /\ ~urlAuthorityOk(Drop(s, c))
     THEN [ok |-> FALSE, protocol |-> <<>>]
     ELSE [ok |-> TRUE, protocol |-> scheme \o <<":">>]

-----------------------------------------------------------------------------
(* api/r.js: the redirect-and-log handler                                  *)

\* JavaScript values of req.query and req.headers: undefined, a string, or
\* (for a repeated query parameter) an array of strings
JsUndef    == [t |-> "undefined", v |-> <<>>]
JsStr(s)   == [t |-> "string", v |-> s]
JsArr(a)   == [t |-> "array", v |-> a]

\* !x: undefined, null, '' and 0 are falsy, arrays and other values are truthy
Falsy(x) ==
  \/ x.t \in {"undefined", "null"}
  \/ (x.t = "string" /\ x.v = <<>>)
  \/ (x.t = "number" /\ x.v = 0)

\* a || b
OrElse(a, b) == IF Falsy(a) THEN b ELSE a

S_unknown == <<"u","n","k","n","o","w","n">>

NoFetch == [state |-> "none", body |-> JsUndef]

\* line 5: Array.isArray(to) ? to[0] : to
firstToLast(to) == IF to.t = "array" THEN JsStr(to.v[Len(to.v)]) ELSE to
firstTo(to) == IF to.t = "array" THEN JsStr(to.v[1]) ELSE to

\* line 14: the protocols that do not throw 'Invalid protocol'
protocolAllowedAny(p) == TRUE
protocolAllowed(p) == p = S_http \o <<":">> \/ p = S_https \o <<":">>

\* lines 12-19: TRUE iff the try block completes without throwing
destinationAccepted(destination) ==
  LET parsedUrl == newURL(destination)
  IN parsedUrl.ok /\ protocolAllowed(parsedUrl.protocol)

\* lines 24-30
logData(req, destination) ==
  [centreId    |-> OrElse(req.query.centreId, JsStr(S_unknown)),
   destination |-> destination,
   sourcePage  |-> OrElse(req.headers.referer, JsStr(<<>>)),
   userAgent   |-> OrElse(req.headers.userAgent, JsStr(<<>>)),
   timestamp   |-> "Date.now"]

\* lines 33-41: the fetch dispatched (not awaited), or none
dispatchAlways(req, destination, webhookUrl) ==
  [state |-> "pending", body |-> logData(req, destination)]
dispatch(req, destination, webhookUrl) ==
  IF ~Falsy(webhookUrl)
  THEN [state |-> "pending", body |-> logData(req, destination)]
  ELSE NoFetch

\* line 44: res.redirect(302, destination)
redirect(status, destination) ==
  [status |-> status, error |-> "", location |-> destination]

\* lines 1-45, the whole handler: what it answers and what it dispatches
handlerResult(req, webhookUrl) ==
  LET destination == firstTo(req.query.to)
  IN IF Falsy(destination)
     THEN [res   |-> [status |-> 400, error |-> "Missing destination URL",
                      location |-> JsUndef],
           fetch |-> NoFetch]
     ELSE IF ~destinationAccepted(destination.v)
     THEN [res   |-> [status |-> 400, error |-> "Invalid or restricted destination URL",
                      location |-> JsUndef],
           fetch |-> NoFetch]
     ELSE [res   |-> redirect(302, destination),
           fetch |-> dispatch(req, destination, webhookUrl)]

-----------------------------------------------------------------------------
(* Requests offered to the handler                                         *)

D_empty      == <<>>
D_space      == <<" ">>
D_relative   == <<"a",".","b","/","c">>
D_path       == <<"/","c">>
D_schemeless == <<"/","/","a",".","b">>
D_javascript == <<"j","a","v","a","s","c","r","i","p","t",":","a","(","1",")">>
D_data       == <<"d","a","t","a",":","a">>
D_file       == <<"f","i","l","e",":","/","/","/","c">>
D_tel        == <<"t","e","l",":","6","1">>
D_ftp        == <<"f","t","p",":","/","/","a",".","b">>
D_http       == <<"h","t","t","p",":","/","/","a",".","b">>
D_https      == <<"h","t","t","p","s",":","/","/","a",".","b","/","c">>
D_upper      == <<"H","T","T","P","S",":","/","/","a",".","b">>
D_padded     == <<" ","h","t","t","p","s",":","/","/","a",".","b">>
D_noslash    == <<"h","t","t","p",":","a",".","b">>
D_nohost     == <<"h","t","t","p","s",":","/","/">>
D_onlyscheme == <<"h","t","t","p",":">>
D_badhost    == <<"h","t","t","p","s",":","/","/","a"," ","b">>
D_port       == <<"h","t","t","p",":","/","/","a",".","b",":","8","0">>
D_badport    == <<"h","t","t","p",":","/","/","a",".","b",":","c">>
D_bigport    == <<"h","t","t","p",":","/","/","a",".","b",":","6","5","5","3","6">>
D_digit      == <<"1","h","t","t","p",":","/","/","a",".","b">>
D_httpx      == <<"h","t","t","p","x",":","/","/","a",".","b">>

\* single values of the `to` parameter
ToStrings ==
  {D_empty, D_space, D_relative, D_path, D_schemeless, D_javascript, D_data,
   D_file, D_tel, D_ftp, D_http, D_https, D_upper, D_padded, D_noslash,
   D_nohost, D_onlyscheme, D_badhost, D_port, D_badport, D_bigport, D_digit,
   D_httpx}

\* `to` supplied several times
ToArrays ==
  {<<D_https, D_javascript>>, <<D_javascript, D_https>>, <<D_http, D_https>>,
   <<D_empty, D_https>>, <<D_tel, D_data>>}

ToValues == {JsUndef} \cup {JsStr(d) : d \in ToStrings} \cup {JsArr(a) : a \in ToArrays}

S_centre  == <<"A","&","B"," ","1">>
S_referer == <<"h","t","t","p","s",":","/","/","p",".","s","g","/">>
S_agent   == <<"U","A">>

RequestContexts ==
  {[centreId |-> JsUndef, referer |-> JsUndef, userAgent |-> JsUndef],
   [centreId |-> JsStr(S_centre), referer |-> JsStr(S_referer), userAgent |-> JsStr(S_agent)]}

Requests ==
  {[query   |-> [centreId |-> c.centreId, to |-> t],
    headers |-> [referer |-> c.referer, userAgent |-> c.userAgent]] :
      c \in RequestContexts, t \in ToValues}

WebhookUrls == {JsUndef, JsStr(<<"h","t","t","p","s",":","/","/","h",".","k">>)}

MaxRequests == 2

-----------------------------------------------------------------------------
(* Actions of the redirect endpoint                                        *)

\* one request answered by the handler (api/r.js lines 1-45)
answer(req) ==
  LET r == handlerResult(req, env)
  IN [req |-> req, res |-> r.res, fetch |-> r.fetch,
      console |-> IF r.res.status = 302 /\ r.fetch = NoFetch
                  THEN "warn: CLICK_LOG_WEBHOOK_URL not configured"
                  ELSE ""]

handler(req) ==
  /\ Len(reqs) < MaxRequests
  /\ reqs' = Append(reqs, answer(req))
  /\ UNCHANGED <<env, centre, opened, viteEnv, pings, storeVars, viewVars, served, write>>

\* the webhook answers the dispatched POST: the promise fulfils, nobody reads it
webhookFulfilled(i) ==
  /\ reqs[i].fetch.state = "pending"
  /\ reqs' = [reqs EXCEPT ![i].fetch.state = "fulfilled"]
  /\ UNCHANGED <<env, centre, opened, viteEnv, pings, storeVars, viewVars, served, write>>

\* the POST fails: .catch logs locally (api/r.js line 38)
webhookRejected(i) ==
  /\ reqs[i].fetch.state = "pending"
  /\ reqs' = [reqs EXCEPT ![i].fetch.state = "rejected",
                          ![i].console = "error: Webhook logging failed"]
  /\ UNCHANGED <<env, centre, opened, viteEnv, pings, storeVars, viewVars, served, write>>

Receive == \E req \in Requests : handler(req)
Fulfil  == \E i \in DOMAIN reqs : webhookFulfilled(i)
Reject  == \E i \in DOMAIN reqs : webhookRejected(i)

-----------------------------------------------------------------------------
(* Properties of the redirect endpoint                                     *)

\* the value the claims call "the first `to` value"
FirstOccurrence(to) == IF to.t = "array" THEN JsStr(to.v[1]) ELSE to

\* a valid absolute http/https URL, as new URL reads it
IsHttpDestination(d) ==
  /\ d.t = "string"
  /\ newURL(d.v).ok
  /\ newURL(d.v).protocol \in {<<"h","t","t","p",":">>, <<"h","t","t","p","s",":">>}

\* the destinations of ToStrings a URL parser accepts as http/https
ExpectedHttp == {D_http, D_https, D_upper, D_padded, D_noslash, D_port}

\* C1: a request whose `to` is missing, empty, unparseable as an absolute URL or
\* of a scheme other than http/https is answered 400, with no webhook call
\* dispatched and no redirect issued.
C1_InvalidDestinationRejected ==
  \A i \in DOMAIN reqs :
    LET d == FirstOccurrence(reqs[i].req.query.to)
    IN (~IsHttpDestination(d) \/ d.v \in ToStrings \ ExpectedHttp) =>
         /\ reqs[i].res.status = 400
         /\ reqs[i].res.error # ""
         /\ reqs[i].res.location = JsUndef
         /\ reqs[i].fetch = NoFetch

\* a tel: destination, and a javascript: destination, have been refused
C1_Witness ==
  /\ \E i \in DOMAIN reqs :
       reqs[i].req.query.to = JsStr(D_tel) /\ reqs[i].res.status = 400
  /\ \E i \in DOMAIN reqs :
       reqs[i].req.query.to = JsStr(D_javascript) /\ reqs[i].res.status = 400

\* C2: a request whose first `to` value is a valid http/https URL gets exactly a
\* 302 whose Location is that first value; of a repeated `to` only the first
\* occurrence is validated, logged and redirected to.
C2_RedirectsToFirstTo ==
  \A i \in DOMAIN reqs :
    LET to == reqs[i].req.query.to
        d  == FirstOccurrence(to)
    IN /\ (IsHttpDestination(d) \/ (d.t = "string" /\ d.v \in ExpectedHttp)) =>
            /\ reqs[i].res = [status |-> 302, error |-> "", location |-> d]
            /\ reqs[i].fetch.state # "none" => reqs[i].fetch.body.destination = d
       /\ (to.t = "array" /\ ~IsHttpDestination(d)) => reqs[i].res.status = 400

\* a repeated `to` whose first value is valid and whose second is not was
\* redirected to the first and logged
C2_Witness ==
  \E i \in DOMAIN reqs :
    /\ reqs[i].req.query.to = JsArr(<<D_https, D_javascript>>)
    /\ reqs[i].res.status = 302
    /\ reqs[i].res.location = JsStr(D_https)
    /\ reqs[i].fetch.state = "pending"

\* C3 (state part): with a valid destination the 302 is there whatever the state
\* of the webhook call (pending, fulfilled, rejected), and with no webhook URL
\* configured it is there with no call dispatched at all.
C3_RedirectState ==
  \A i \in DOMAIN reqs :
    IsHttpDestination(FirstOccurrence(reqs[i].req.query.to)) =>
      /\ reqs[i].res.status = 302
      /\ reqs[i].res.location = FirstOccurrence(reqs[i].req.query.to)
      /\ Falsy(env) => reqs[i].fetch = NoFetch
      /\ ~Falsy(env) => reqs[i].fetch.state \in {"pending", "fulfilled", "rejected"}

\* C3 (step part): the step that answers a request records the response while
\* its webhook call is still pending (nothing is awaited), and no later step
\* (the call failing or completing) changes a response already sent.
C3_RedirectStep ==
  /\ \A i \in DOMAIN reqs : i \in DOMAIN reqs' /\ reqs'[i].res = reqs[i].res
  /\ \A i \in DOMAIN reqs' \ DOMAIN reqs : reqs'[i].fetch.state \in {"none", "pending"}

\* C3: the 302 is issued regardless of the logging side channel.
C3_RedirectIndependentOfLogging == []C3_RedirectState /\ [][C3_RedirectStep]_vars

\* a redirect was sent and its webhook call failed afterwards
C3_Witness ==
  \E i \in DOMAIN reqs :
    /\ reqs[i].res.status = 302
    /\ reqs[i].fetch.state = "rejected"
    /\ reqs[i].console = "error: Webhook logging failed"

-----------------------------------------------------------------------------
(* URL encoding between the centre modal and the endpoint                  *)

\* characters encodeURIComponent leaves as they are
uriUnreserved == AlNum \cup {"-", "_", ".", "!", "~", "*", "'", "(", ")"}

\* the %XX escape of the other characters of the model's alphabet
percentCode(c) ==
  CASE c = " " -> <<"%","2","0">>
    [] c = "#" -> <<"%","2","3">>
    [] c = "%" -> <<"%","2","5">>
    [] c = "&" -> <<"%","2","6">>
    [] c = "+" -> <<"%","2","B">>
    [] c = "/" -> <<"%","2","F">>
    [] c = ":" -> <<"%","3","A">>
    [] c = "=" -> <<"%","3","D">>
    [] c = "?" -> <<"%","3","F">>

percentEncoded == {" ", "#", "%", "&", "+", "/", ":", "=", "?"}

RECURSIVE encodeURIComponent(_)
encodeURIComponent(s) ==
  IF s = <<>> THEN <<>>
  ELSE (IF Head(s) \in uriUnreserved THEN <<Head(s)>> ELSE percentCode(Head(s)))
       \o encodeURIComponent(Tail(s))

\* the query-string unescape of the server: %XX back to the character, '+' to a space
RECURSIVE unescape(_)
unescape(s) ==
  IF s = <<>> THEN <<>>
  ELSE IF /\ Head(s) = "%"
          /\ Len(s) >= 3
          /\ \E c \in percentEncoded : percentCode(c) = Take(s, 3)
       THEN <<CHOOSE c \in percentEncoded : percentCode(c) = Take(s, 3)>>
            \o unescape(Drop(s, 3))
  ELSE IF Head(s) = "+" THEN <<" ">> \o unescape(Tail(s))
  ELSE <<Head(s)>> \o unescape(Tail(s))

\* s.split(sep) for a one-character separator
RECURSIVE split(_, _)
split(s, sep) ==
  LET i == FirstIn(s, {sep})
  IN IF i = 0 THEN <<s>> ELSE <<Take(s, i - 1)>> \o split(Drop(s, i), sep)

\* the values of parameter `key` in the query string qs, in order
RECURSIVE queryValues(_, _)
queryValues(pairs, key) ==
  IF pairs = <<>> THEN <<>>
  ELSE LET kv == Head(pairs)
           e  == FirstIn(kv, {"="})
           k  == unescape(IF e = 0 THEN kv ELSE Take(kv, e - 1))
           v  == unescape(IF e = 0 THEN <<>> ELSE Drop(kv, e))
       IN (IF kv # <<>> /\ k = key THEN <<v>> ELSE <<>>) \o queryValues(Tail(pairs), key)

\* req.query[key]: undefined, the value, or the array of a repeated parameter
queryParam(qs, key) ==
  LET vs == queryValues(split(qs, "&"), key)
  IN IF vs = <<>> THEN JsUndef
     ELSE IF Len(vs) = 1 THEN JsStr(vs[1]) ELSE JsArr(vs)

S_apiR     == <<"/","a","p","i","/","r">>
S_centreId == <<"c","e","n","t","r","e","I","d">>
S_to       == <<"t","o">>

\* the request the endpoint receives when the browser opens the URL url
requestFor(url) ==
  LET q  == FirstIn(url, {"?"})
      qs == IF q = 0 THEN <<>> ELSE Drop(url, q)
  IN [query   |-> [centreId |-> queryParam(qs, S_centreId), to |-> queryParam(qs, S_to)],
      headers |-> [referer |-> JsStr(S_referer), userAgent |-> JsStr(S_agent)]]

-----------------------------------------------------------------------------
(* The centre modal: src/unnamed/part_000 lines 7-86 routes clicks through *)
(* the endpoint; components/CentreModal.jsx pings the webhook itself and   *)
(* opens the destination directly.                                         *)

S_Whatsapp == <<"W","h","a","t","s","a","p","p">>
S_LandLine == <<"L","a","n","d","L","i","n","e">>
S_whatsapp == <<"w","h","a","t","s","a","p","p">>
S_landline == <<"l","a","n","d","l","i","n","e">>
S_call     == <<"c","a","l","l">>
S_waMe     == <<"h","t","t","p","s",":","/","/","w","a",".","m","e","/">>
S_telColon == <<"t","e","l",":">>

contactNumberUnstripped(c) ==
  IF c.whatsappNumber.t = "undefined" THEN JsUndef ELSE JsStr(c.whatsappNumber.v)

\* centre.whatsappNumber?.toString().replace(/\s/g, '')
contactNumber(c) ==
  IF c.whatsappNumber.t = "undefined" THEN JsUndef
  ELSE JsStr(stripWhitespace(c.whatsappNumber.v))

\* part_000 lines 11-21: the destination of the primary action, '' if none
primaryDestination(c) ==
  LET number == contactNumber(c)
  IN IF c.contactType = JsStr(S_Whatsapp) /\ ~Falsy(number)
       THEN S_waMe \o number.v
     ELSE IF c.contactType = JsStr(S_LandLine) /\ ~Falsy(number)
       THEN S_telColon \o number.v
     ELSE IF ~Falsy(number)
       THEN S_telColon \o number.v
     ELSE <<>>

\* part_000 lines 24 and 31
trackingUrl(name, destination) ==
  S_apiR \o <<"?">> \o S_centreId \o <<"=">> \o encodeURIComponent(name)
         \o <<"&">> \o S_to \o <<"=">> \o encodeURIComponent(destination)

\* CentreModal.jsx lines 42-63: destination and click type of the primary action
directDestination(c) ==
  LET number == contactNumber(c)
      type   == IF Falsy(c.contactType) THEN <<>> ELSE toLowerCase(c.contactType.v)
  IN IF ~Falsy(c.contactType) /\ Includes(type, S_whatsapp) /\ ~Falsy(number)
       THEN [destination |-> S_waMe \o number.v, clickType |-> "WhatsApp"]
     ELSE IF /\ ~Falsy(c.contactType)
             /\ (Includes(type, S_landline) \/ Includes(type, S_call))
             /\ ~Falsy(number)
       THEN [destination |-> S_telColon \o number.v, clickType |-> "Call"]
     ELSE IF ~Falsy(number)
       THEN [destination |-> S_telColon \o number.v, clickType |-> "Call"]
     ELSE [destination |-> <<>>, clickType |-> ""]

\* CentreModal.jsx lines 11-39: the webhook calls after trackClick(type, destination)
trackClick(type, destination) ==
  IF Falsy(viteEnv) THEN pings
  ELSE Append(pings, [state |-> "pending",
                      body  |-> [centreName     |-> OrElse(centre.name, JsStr(S_unknown)),
                                 clickType      |-> type,
                                 destinationUrl |-> destination]])

MaxClicks == 2

\* one window.open call: via is the component that made it, served the index in
\* reqs of the endpoint's answer (0: the endpoint has not been asked)
Opening(kind, destination, url, via, at) ==
  [kind |-> kind, destination |-> destination, url |-> url, via |-> via,
   at |-> at, served |-> 0]

\* part_000 lines 10-27
handlePrimaryAction ==
  /\ centre # JsUndef
  /\ Len(opened) < MaxClicks
  /\ ~Falsy(centre.whatsappNumber)           \* the button is rendered (line 62)
  /\ LET destination == primaryDestination(centre)
     IN IF destination # <<>>
        THEN opened' = Append(opened,
               Opening("primary", destination, trackingUrl(centre.name.v, destination),
                       "redirect", "opened"))
        ELSE opened' = opened
  /\ UNCHANGED <<env, reqs, centre, viteEnv, pings, storeVars, viewVars, served, write>>

\* part_000 lines 29-34
handleWebsiteClick ==
  /\ centre # JsUndef
  /\ Len(opened) < MaxClicks
  /\ ~Falsy(centre.websiteUrl)               \* the button is rendered (line 73)
  /\ opened' = Append(opened,
       Opening("website", centre.websiteUrl.v,
               trackingUrl(centre.name.v, centre.websiteUrl.v), "redirect", "opened"))
  /\ UNCHANGED <<env, reqs, centre, viteEnv, pings, storeVars, viewVars, served, write>>

\* CentreModal.jsx lines 41-72
CentreModal_handlePrimaryAction ==
  /\ centre # JsUndef
  /\ Len(opened) < MaxClicks
  /\ ~Falsy(centre.whatsappNumber)           \* the button is rendered (line 109)
  /\ LET d == directDestination(centre)
     IN IF d.destination # <<>> /\ d.clickType # ""
        THEN /\ pings' = trackClick(d.clickType, d.destination)
             /\ opened' = Append(opened,
                  Opening("primary", d.destination, d.destination, "direct", "scheduled"))
        ELSE UNCHANGED <<pings, opened>>
  /\ UNCHANGED <<env, reqs, centre, viteEnv, storeVars, viewVars, served, write>>

\* CentreModal.jsx lines 74-81
CentreModal_handleWebsiteClick ==
  /\ centre # JsUndef
  /\ Len(opened) < MaxClicks
  /\ ~Falsy(centre.websiteUrl)               \* the button is rendered (line 120)
  /\ pings' = trackClick("Website", centre.websiteUrl.v)
  /\ opened' = Append(opened,
       Opening("website", centre.websiteUrl.v, centre.websiteUrl.v, "direct", "scheduled"))
  /\ UNCHANGED <<env, reqs, centre, viteEnv, storeVars, viewVars, served, write>>

\* CentreModal.jsx lines 68-70 and 77-79: the 100 ms timer opens the destination
openTimerFires(i) ==
  /\ opened[i].at = "scheduled"
  /\ opened' = [opened EXCEPT ![i].at = "opened"]
  /\ UNCHANGED <<env, reqs, centre, viteEnv, pings, storeVars, viewVars, served, write>>

\* CentreModal.jsx lines 28-38: the awaited ping completes, or fails and is logged
pingSettles(i, outcome) ==
  /\ pings[i].state = "pending"
  /\ pings' = [pings EXCEPT ![i].state = outcome]
  /\ UNCHANGED <<env, reqs, centre, opened, viteEnv, storeVars, viewVars, served, write>>

\* the browser loads a tracking URL the modal opened: the endpoint answers it
navigate(i) ==
  /\ opened[i].at = "opened"
  /\ opened[i].served = 0
  /\ StartsWith(opened[i].url, S_apiR \o <<"?">>)
  /\ reqs' = Append(reqs, answer(requestFor(opened[i].url)))
  /\ opened' = [opened EXCEPT ![i].served = Len(reqs) + 1]
  /\ UNCHANGED <<env, centre, viteEnv, pings, storeVars, viewVars, served, write>>

S_number  == <<"6","1"," ","2">>
S_website == <<"h","t","t","p","s",":","/","/","a",".","b","/","c","?","d","=","1">>

Centres ==
  {[name |-> JsStr(S_centre), contactType |-> t, whatsappNumber |-> n, websiteUrl |-> w] :
     t \in {JsUndef, JsStr(S_Whatsapp), JsStr(S_LandLine), JsStr(S_whatsapp)},
     n \in {JsUndef, JsStr(<<" ">>), JsStr(S_number)},
     w \in {JsUndef, JsStr(<<>>), JsStr(S_website)}}

TimerFires  == \E i \in DOMAIN opened : openTimerFires(i)
PingSettles == \E i \in DOMAIN pings : \E o \in {"fulfilled", "rejected"} : pingSettles(i, o)
Navigate    == \E i \in DOMAIN opened : navigate(i)

\* C4: every outbound click of the centre modal that has a destination goes
\* through the redirect endpoint with the centre identifier and the destination
\* as query parameters, and (a webhook being configured) the endpoint dispatches
\* a log record for it.
C4_EveryClickRoutedAndLogged ==
  \A i \in DOMAIN opened :
    /\ StartsWith(opened[i].url, S_apiR \o <<"?">>)
    /\ requestFor(opened[i].url).query =
         [centreId |-> centre.name, to |-> JsStr(opened[i].destination)]
    /\ (opened[i].served # 0 /\ ~Falsy(env)) =>
         /\ reqs[opened[i].served].fetch.state # "none"
         /\ reqs[opened[i].served].fetch.body.destination = JsStr(opened[i].destination)

\* The stored number with all whitespace removed, '' when there is none.
C14_Number(c) ==
  IF c.whatsappNumber.t = "string"
  THEN SelectSeq(c.whatsappNumber.v, LAMBDA ch : ch \notin WhiteSpace)
  ELSE <<>>

\* The contact type is the messaging-app type: the value 'Whatsapp' for the
\* modal that routes through /api/r, any spelling containing 'whatsapp' for the
\* modal that opens the destination itself.
C14_Messaging(c, via) ==
  /\ c.contactType.t = "string"
  /\ IF via = "redirect"
     THEN c.contactType.v = S_Whatsapp
     ELSE Includes(toLowerCase(c.contactType.v), S_whatsapp)

C14_Expected(c, via) ==
  IF C14_Number(c) = <<>> THEN <<>>
  ELSE IF C14_Messaging(c, via) THEN S_waMe \o C14_Number(c)
  ELSE S_telColon \o C14_Number(c)

C14_HasWebsite(c) == c.websiteUrl.t = "string" /\ c.websiteUrl.v # <<>>

C14_Opened ==
  \A i \in DOMAIN opened :
    /\ opened[i].destination # <<>>
    /\ opened[i].kind = "primary" =>
         opened[i].destination = C14_Expected(centre, opened[i].via)
    /\ opened[i].kind = "website" =>
         C14_HasWebsite(centre) /\ opened[i].destination = centre.websiteUrl.v

C14_WebsiteAvailable ==
  (centre # JsUndef /\ Len(opened) < MaxClicks) =>
    /\ (ENABLED handleWebsiteClick) <=> C14_HasWebsite(centre)
    /\ (ENABLED CentreModal_handleWebsiteClick) <=> C14_HasWebsite(centre)

C14_PrimaryStep ==
  /\ handlePrimaryAction =>
       IF C14_Number(centre) = <<>> THEN opened' = opened
       ELSE /\ Len(opened') = Len(opened) + 1
            /\ opened'[Len(opened')].kind = "primary"
            /\ opened'[Len(opened')].destination = C14_Expected(centre, "redirect")
  /\ CentreModal_handlePrimaryAction =>
       IF C14_Number(centre) = <<>> THEN opened' = opened /\ pings' = pings
       ELSE /\ Len(opened') = Len(opened) + 1
            /\ opened'[Len(opened')].kind = "primary"
            /\ opened'[Len(opened')].destination = C14_Expected(centre, "direct")

-----------------------------------------------------------------------------
(* commentService (src/unnamed/part_000 lines 88-382): sanitising and      *)
(* validating                                                              *)

\* text.replace(/<[^>]*>/g, ''): leftmost matches, left to right
RECURSIVE stripTags(_)
stripTags(s) ==
  IF s = <<>> THEN <<>>
  ELSE IF Head(s) = "<" /\ FirstIn(Tail(s), {">"}) # 0
       THEN stripTags(Drop(s, 1 + FirstIn(Tail(s), {">"})))
  ELSE <<Head(s)>> \o stripTags(Tail(s))

S_scriptOpen  == <<"<","s","c","r","i","p","t">>
S_scriptClose == <<"<","/","s","c","r","i","p","t",">">>

\* \w of a regular expression
WordChar == AlNum \cup {"_"}

\* the first position >= from where p matches s ignoring case, or 0
firstMatchCI(s, p, from) ==
  LET l  == toLowerCase(s)
      ok == {i \in from..(Len(s) + 1) : MatchAt(l, p, i)}
  IN IF ok = {} THEN 0 ELSE CHOOSE i \in ok : \A j \in ok : i <= j

\* replace(/<script\b[^<]*(?:(?!<\/script>)<[^<]*)*<\/script>/gi, ''): an opening
\* <script up to the first closing tag after it
RECURSIVE stripScripts(_)
stripScripts(s) ==
  IF s = <<>> THEN <<>>
  ELSE LET open  == /\ MatchAt(toLowerCase(s), S_scriptOpen, 1)
                    /\ Len(s) > 7
                    /\ s[8] \notin WordChar
           close == firstMatchCI(s, S_scriptClose, 8)
       IN IF open /\ close # 0
          THEN stripScripts(Drop(s, close + 8))
          ELSE <<Head(s)>> \o stripScripts(Tail(s))

\* lines 93-106; text is a string or undefined/null
sanitizeTextNoTags(text) ==
  IF Falsy(text) THEN <<>> ELSE trim(text.v)

RECURSIVE stripTagsInnermost(_)
stripTagsInnermost(s) ==
  IF s = <<>> THEN <<>>
  ELSE IF /\ Head(s) = "<"
          /\ FirstIn(Tail(s), {"<", ">"}) # 0
          /\ Tail(s)[FirstIn(Tail(s), {"<", ">"})] = ">"
       THEN stripTagsInnermost(Drop(s, 1 + FirstIn(Tail(s), {">"})))
  ELSE <<Head(s)>> \o stripTagsInnermost(Tail(s))

sanitizeTextInnermost(text) ==
  IF Falsy(text) THEN <<>>
  ELSE trim(stripScripts(stripTagsInnermost(text.v)))

sanitizeText(text) ==
  IF Falsy(text) THEN <<>>
  ELSE trim(stripScripts(stripTags(text.v)))

\* sanitizeText and validateComment of the values the callers below pass,
\* computed once
TypedValues ==
  {JsUndef, JsStr(<<"b","o","b">>), JsStr(<<"h","i">>), JsStr(<<" ">>),
   JsStr(<<" ","<","b",">","h","i","<","/","b",">">>),
   JsStr(<<"<","i",">","<","/","i",">">>), JsStr(<<"a",".","c","o","m">>)}

TLDs ==
  {<<"c","o","m">>, <<"n","e","t">>, <<"o","r","g">>, <<"e","d","u">>, <<"g","o","v">>,
   <<"i","o">>, <<"c","o">>, <<"u","k">>, <<"u","s">>}

\* \b between positions i-1 and i of s
WordBoundary(s, i) ==
  LET before == i > 1 /\ i - 1 <= Len(s) /\ s[i - 1] \in WordChar
      after  == i >= 1 /\ i <= Len(s) /\ s[i] \in WordChar
  IN before # after

\* /\.[a-z]{2,}\//i
matchesDomainPath(s) ==
  \E i \in DOMAIN s : \E j \in (i + 3)..Len(s) :
    /\ s[i] = "."
    /\ s[j] = "/"
    /\ \A k \in (i + 1)..(j - 1) : s[k] \in Alpha

\* /\b[a-z0-9-]+\.(com|net|org|edu|gov|io|co|uk|us)\b/i
matchesBareDomain(s) ==
  \E j \in DOMAIN s :
    /\ s[j] = "."
    /\ \E tld \in TLDs :
         /\ MatchAt(toLowerCase(s), tld, j + 1)
         /\ WordBoundary(s, j + 1 + Len(tld))
    /\ \E i \in 1..(j - 1) :
         /\ WordBoundary(s, i)
         /\ \A k \in i..(j - 1) : s[k] \in AlNum \cup {"-"}

\* lines 111-120
containsUrl(text) ==
  \/ Includes(toLowerCase(text), <<"h","t","t","p",":","/","/">>)
  \/ Includes(toLowerCase(text), <<"h","t","t","p","s",":","/","/">>)
  \/ Includes(toLowerCase(text), <<"w","w","w",".">>)
  \/ matchesDomainPath(text)
  \/ matchesBareDomain(text)

MaxCommentLength  == 500
MaxUsernameLength == 50

\* lines 125-149: the list of violations, in the order they are pushed
validateNothing(text, username) == <<>>
validateFirstViolation(text, username) ==
  IF trim(text) = <<>> THEN <<"Comment cannot be empty">>
  ELSE IF Len(text) > MaxCommentLength
    THEN <<"Comment must be 500 characters or less">>
  ELSE IF containsUrl(text) THEN <<"Comments cannot contain URLs or links">>
  ELSE IF trim(username) = <<>> THEN <<"Username is required">>
  ELSE IF Len(username) > MaxUsernameLength
    THEN <<"Username must be 50 characters or less">>
  ELSE <<>>
validateComment(text, username) ==
  (IF trim(text) = <<>> THEN <<"Comment cannot be empty">> ELSE <<>>)
  \o (IF Len(text) > MaxCommentLength
      THEN <<"Comment must be 500 characters or less">> ELSE <<>>)
  \o (IF containsUrl(text) THEN <<"Comments cannot contain URLs or links">> ELSE <<>>)
  \o (IF trim(username) = <<>> THEN <<"Username is required">> ELSE <<>>)
  \o (IF Len(username) > MaxUsernameLength
      THEN <<"Username must be 50 characters or less">> ELSE <<>>)

Sanitized == [t \in TypedValues |-> sanitizeText(t)]

Validated ==
  [p \in {Sanitized[t] : t \in TypedValues} \X {Sanitized[t] : t \in TypedValues} |->
     validateComment(p[1], p[2])]

-----------------------------------------------------------------------------
(* commentService: the comments table and the operations on it             *)

JsNull == [t |-> "null", v |-> <<>>]

\* a null comment id (parent_comment_id of a top-level comment)
NullId == 0

MaxComments == 3

CommentIds == 1..MaxComments

\* the callers of createComment: the comment section awaits each call before
\* it makes the next one, the admin operations run between its awaits
Slots == {"user"}

S_P1      == <<"P","1">>
S_S2      == <<"S","2">>
S_Maths   == <<"M","a","t","h","s">>
S_English == <<"E","n","g","l","i","s","h">>
S_bob     == <<"b","o","b">>
S_hi      == <<"h","i">>

General == [level |-> JsNull, subject |-> JsNull]
P1Maths == [level |-> JsStr(S_P1), subject |-> JsStr(S_Maths)]
S2Eng   == [level |-> JsStr(S_S2), subject |-> JsStr(S_English)]

T_tagged == <<" ","<","b",">","h","i","<","/","b",">">>
T_blank  == <<" ">>
T_tags   == <<"<","i",">","<","/","i",">">>
T_link   == <<"a",".","c","o","m">>

Input(username, text, parentCommentId, context) ==
  [username |-> username, text |-> text, parentCommentId |-> parentCommentId,
   level |-> context.level, subject |-> context.subject]

\* the createComment calls made: new comments of a class, replies (whose caller
\* passes another class than the parent's), and calls whose text or username is
\* not acceptable
CallInputs ==
  {Input(JsStr(S_bob), JsStr(S_hi), NullId, P1Maths),
   Input(JsStr(S_bob), JsStr(T_blank), NullId, P1Maths),
   Input(JsStr(T_tags), JsStr(S_hi), NullId, General),
   Input(JsStr(T_link), JsStr(S_hi), NullId, General)}
  \cup {Input(JsStr(S_bob), JsStr(T_tagged), p, S2Eng) : p \in CommentIds}
  \cup {Input(JsStr(S_bob), JsStr(T_link), p, General) : p \in CommentIds}

NoRow == [comment_id |-> NullId, created_at |-> 0, centre_id |-> "", username |-> <<>>,
          text |-> <<>>, parent_comment_id |-> NullId, level |-> JsNull,
          subject |-> JsNull, hidden |-> FALSE]

NoParent == [found |-> FALSE, parent_comment_id |-> NullId, level |-> JsNull,
             subject |-> JsNull, row |-> NoRow]

NoArgs == [centreId |-> "", username |-> JsUndef, text |-> JsUndef,
           parentCommentId |-> NullId, level |-> JsNull, subject |-> JsNull]

\* a createComment call: pc is where it stands (idle, awaitParent, awaitInsert,
\* done), the rest its parameters, its locals and what it returned
IdleCall ==
  [pc |-> "idle", args |-> NoArgs, sanitizedText |-> <<>>, sanitizedUsername |-> <<>>,
   parentComment |-> NoParent, finalLevel |-> JsNull, finalSubject |-> JsNull,
   data |-> NoRow, error |-> <<>>]

\* the rows of set rs ordered by created_at, ascending
RECURSIVE orderByCreatedAt(_)
orderByCreatedAt(rs) ==
  IF rs = {} THEN <<>>
  ELSE LET first == CHOOSE r \in rs : \A q \in rs : r.created_at <= q.created_at
       IN <<first>> \o orderByCreatedAt(rs \ {first})

Reverse(s) == [i \in DOMAIN s |-> s[Len(s) + 1 - i]]

\* .range(from, to) of a query result: rows from..to, 0-based and inclusive
range(rows, from, to) ==
  IF from + 1 > Len(rows) THEN <<>>
  ELSE SubSeq(rows, from + 1, IF to + 1 > Len(rows) THEN Len(rows) ELSE to + 1)

\* lines 218-224: the rows fetchReplies asks for
repliesQueryWithHidden(parentCommentId, limit, from) ==
  range(orderByCreatedAt({r \in comments : r.parent_comment_id = parentCommentId}),
        from, from + limit - 1)
repliesQuery(parentCommentId, limit, from) ==
  range(orderByCreatedAt({r \in comments :
                            r.parent_comment_id = parentCommentId /\ r.hidden = FALSE}),
        from, from + limit - 1)

\* lines 240-244: the count getReplyCount asks for
replyCountQuery(parentCommentId) ==
  Cardinality({r \in comments : r.parent_comment_id = parentCommentId /\ r.hidden = FALSE})

\* lines 282-286: .eq('comment_id', id).single() with the columns selected
parentQuery(parentCommentId) ==
  LET rs == {r \in comments : r.comment_id = parentCommentId}
  IN IF Cardinality(rs) # 1 THEN NoParent
     ELSE LET r == CHOOSE r \in rs : TRUE
          IN [found |-> TRUE, parent_comment_id |-> r.parent_comment_id,
              level |-> r.level, subject |-> r.subject, row |-> r]

\* the outcomes of one call to the backend: it answers, it answers with an
\* error, or the call throws (network failure)
Outcomes == {"ok", "error", "throw"}

\* line 292: the parent read is itself a reply
parentIsReplyNever(parentComment) == FALSE
parentIsReply(parentComment) == parentComment.parent_comment_id # NullId

\* lines 277-278 and 297-298: the level and subject to store
callerContext(args, parentComment) == [level |-> args.level, subject |-> args.subject]
finalContext(args, parentComment) ==
  IF args.parentCommentId # NullId
  THEN [level |-> parentComment.level, subject |-> parentComment.subject]
  ELSE [level |-> args.level, subject |-> args.subject]

\* lines 304-312: the row handed to insert
newRow(call) ==
  [comment_id |-> nextId, created_at |-> nextId, centre_id |-> call.args.centreId,
   username |-> call.sanitizedUsername, text |-> call.sanitizedText,
   parent_comment_id |-> call.args.parentCommentId,
   level |-> call.finalLevel, subject |-> call.finalSubject, hidden |-> FALSE]

Returned(call, data, error) == [call EXCEPT !.pc = "done", !.data = data, !.error = error]

\* lines 264-281: the call up to its first await
createComment_begin(c, centreId, username, text, parentCommentId, level, subject) ==
  LET args   == [centreId |-> centreId, username |-> username, text |-> text,
                 parentCommentId |-> parentCommentId, level |-> level,
                 subject |-> subject]
      sanitizedText     == Sanitized[text]
      sanitizedUsername == Sanitized[username]
      errors == Validated[<<sanitizedText, sanitizedUsername>>]
      call   == [IdleCall EXCEPT !.args = args, !.sanitizedText = sanitizedText,
                                 !.sanitizedUsername = sanitizedUsername,
                                 !.finalLevel = level, !.finalSubject = subject]
  IN [calls EXCEPT ![c] =
        IF Len(errors) > 0 THEN Returned(call, NoRow, errors)
        ELSE IF parentCommentId # NullId THEN [call EXCEPT !.pc = "awaitParent"]
        ELSE [call EXCEPT !.pc = "awaitInsert"]]

createComment(c, centreId, username, text, parentCommentId, level, subject) ==
  /\ calls[c].pc \in {"idle", "done"}
  /\ calls' = createComment_begin(c, centreId, username, text, parentCommentId,
                                  level, subject)
  /\ UNCHANGED <<comments, nextId, clickVars, viewVars, served, write>>

\* lines 282-299: the parent lookup answers
createComment_parent(c, outcome) ==
  /\ calls[c].pc = "awaitParent"
  /\ LET call          == calls[c]
         parentComment == IF outcome = "ok" THEN parentQuery(call.args.parentCommentId)
                          ELSE NoParent
         final         == finalContext(call.args, parentComment)
     IN calls' = [calls EXCEPT ![c] =
          IF outcome = "throw" THEN Returned(call, NoRow, <<"error.message">>)
          ELSE IF ~parentComment.found
            THEN Returned(call, NoRow, <<"Parent comment not found">>)
          ELSE IF parentIsReply(parentComment)
            THEN Returned([call EXCEPT !.parentComment = parentComment], NoRow,
                   <<"Cannot reply to a reply. Only top-level comments can be replied to.">>)
          ELSE [call EXCEPT !.pc = "awaitInsert", !.parentComment = parentComment,
                            !.finalLevel = final.level, !.finalSubject = final.subject]]
  /\ UNCHANGED <<comments, nextId, clickVars, viewVars, served, write>>

\* lines 302-322: the insert answers
createComment_insert(c, outcome) ==
  /\ calls[c].pc = "awaitInsert"
  /\ IF outcome = "ok"
     THEN /\ nextId <= MaxComments
          /\ comments' = comments \cup {newRow(calls[c])}
          /\ nextId' = nextId + 1
          /\ calls' = [calls EXCEPT ![c] = Returned(calls[c], newRow(calls[c]), <<>>)]
     ELSE /\ calls' = [calls EXCEPT ![c] = Returned(calls[c], NoRow, <<"error.message">>)]
          /\ UNCHANGED <<comments, nextId>>
  /\ UNCHANGED <<clickVars, viewVars, served, write>>

\* lines 347-363: update({hidden}).eq('comment_id', id).select().single();
\* a call the backend fails changes nothing
adminToggleHidden(commentId, hidden) ==
  /\ comments' = {IF r.comment_id = commentId THEN [r EXCEPT !.hidden = hidden] ELSE r :
                    r \in comments}
  /\ UNCHANGED <<nextId, calls, clickVars, viewVars, served, write>>

\* lines 368-382: delete().eq('comment_id', id); a call the backend fails
\* changes nothing
adminDeleteComment(commentId) ==
  /\ comments' = {r \in comments : r.comment_id # commentId}
  /\ UNCHANGED <<nextId, calls, clickVars, viewVars, served, write>>

Create ==
  \E c \in Slots, i \in CallInputs :
    createComment(c, "centre", i.username, i.text, i.parentCommentId, i.level, i.subject)
ParentAnswers == \E c \in Slots, o \in Outcomes : createComment_parent(c, o)
InsertAnswers == \E c \in Slots, o \in Outcomes : createComment_insert(c, o)
AdminToggle   == \E i \in CommentIds, h \in BOOLEAN : adminToggleHidden(i, h)
AdminDelete   == \E i \in CommentIds : adminDeleteComment(i)

-----------------------------------------------------------------------------
(* Properties of the comments table                                        *)

CannotReply == <<"Cannot reply to a reply. Only top-level comments can be replied to.">>
ParentNotFound == <<"Parent comment not found">>

IsReply(r) == r.parent_comment_id # NullId

\* the stored rows with comment_id id
Stored(id) == {r \in comments : r.comment_id = id}

\* call c returns in this step
Returns(c) == calls'[c].pc = "done" /\ calls'[c] # calls[c]

\* C5 as claimed: every stored reply refers to a stored parent that is top-level.
C5_RepliesHaveStoredTopLevelParent ==
  \A r \in comments :
    IsReply(r) => \E q \in Stored(r.parent_comment_id) : ~IsReply(q)

\* C5 as amended: no stored comment is a reply to a stored reply (nesting never
\* exceeds 1); the parent of a stored reply may have been deleted.
C5_NoReplyToStoredReply ==
  \A r \in comments :
    IsReply(r) => \A q \in Stored(r.parent_comment_id) : ~IsReply(q)

\* a reply is stored under its stored top-level parent, and a reply to that
\* reply has been refused
C5_Witness ==
  \E r \in comments :
    /\ IsReply(r)
    /\ \E q \in Stored(r.parent_comment_id) : ~IsReply(q)
    /\ \E c \in Slots : /\ calls[c].pc = "done"
                        /\ calls[c].args.parentCommentId = r.comment_id
                        /\ calls[c].data = NoRow

\* C6 as claimed: a call whose parentId names a comment that is itself a reply
\* returns the 'cannot reply to a reply' error and inserts nothing.
C6_ReplyToReplyStep ==
  \A c \in Slots :
    (/\ Returns(c)
     /\ \E q \in Stored(calls'[c].args.parentCommentId) : IsReply(q)) =>
      /\ calls'[c].error = CannotReply
      /\ calls'[c].data = NoRow
      /\ comments' = comments

C6_ReplyToReplyAlwaysCannotReply == [][C6_ReplyToReplyStep]_vars

\* C6 as amended: a call whose parent lookup returns a comment that is itself a
\* reply (its text and username having passed validation) returns the 'cannot
\* reply to a reply' error, and no step inserts a reply to a stored reply.
C6_LookedUpReplyStep ==
  /\ \A c \in Slots :
       (/\ Returns(c)
        /\ calls'[c].parentComment.found
        /\ calls'[c].parentComment.parent_comment_id # NullId) =>
         /\ calls'[c].error = CannotReply
         /\ calls'[c].data = NoRow
         /\ comments' = comments
  /\ \A c \in Slots :
       (/\ calls[c].pc = "awaitParent"
        /\ calls'[c].pc = "awaitInsert") =>
         \A q \in Stored(calls[c].args.parentCommentId) : ~IsReply(q)
  /\ \A r \in comments' \ comments :
       \A q \in Stored(r.parent_comment_id) : ~IsReply(q)

C6_LookedUpReplyRejected == [][C6_LookedUpReplyStep]_vars

\* a call naming a stored reply as parent was refused with that error
C6_Witness ==
  \E c \in Slots :
    /\ calls[c].pc = "done"
    /\ calls[c].error = CannotReply
    /\ \E q \in Stored(calls[c].args.parentCommentId) : IsReply(q)

\* C7: the level and subject of a successfully created reply are those read
\* from its parent, whatever the caller passed.
C7_ReplyInheritsParentContext ==
  /\ \A r \in comments :
       IsReply(r) => \A q \in Stored(r.parent_comment_id) :
                        r.level = q.level /\ r.subject = q.subject
  /\ \A c \in Slots :
       (calls[c].pc = "done" /\ calls[c].data # NoRow
          /\ calls[c].args.parentCommentId # NullId) =>
         /\ calls[c].parentComment.found
         /\ calls[c].data.level = calls[c].parentComment.level
         /\ calls[c].data.subject = calls[c].parentComment.subject
         /\ calls[c].data.parent_comment_id = calls[c].args.parentCommentId

\* a reply was created whose caller passed another level and subject than its parent's
C7_Witness ==
  \E c \in Slots :
    /\ calls[c].pc = "done"
    /\ calls[c].data \in comments
    /\ IsReply(calls[c].data)
    /\ calls[c].args.level = JsStr(S_S2)
    /\ calls[c].data.level = JsStr(S_P1)
    /\ calls[c].data.subject = JsStr(S_Maths)

\* the inputs of CallInputs that validation must refuse, with its message
ExpectedErrors(args) ==
  IF args.text = JsStr(T_blank) THEN <<"Comment cannot be empty">>
  ELSE IF args.text = JsStr(T_link) THEN <<"Comments cannot contain URLs or links">>
  ELSE IF args.username = JsStr(T_tags) THEN <<"Username is required">>
  ELSE <<>>

\* C8: when validation of the sanitized text/username fails, or the parent
\* lookup fails, the call returns (null, message) and the table is unchanged:
\* the call never reaches its insert.
C8_FailedCallStep ==
  \A c \in Slots :
    /\ (calls'[c] # calls[c] /\ calls[c].pc \in {"idle", "done"}
          /\ ExpectedErrors(calls'[c].args) # <<>>) =>
         /\ calls'[c].pc = "done"
         /\ calls'[c].error = ExpectedErrors(calls'[c].args)
    /\ (calls[c].pc = "awaitParent" /\ Stored(calls[c].args.parentCommentId) = {}) =>
         (calls'[c] # calls[c] =>
            /\ calls'[c].pc = "done"
            /\ calls'[c].error \in {ParentNotFound, <<"error.message">>})
    /\ (Returns(c) /\ calls[c].pc # "awaitInsert") =>
         /\ calls'[c].data = NoRow
         /\ calls'[c].error # <<>>
         /\ comments' = comments
         /\ nextId' = nextId

C8_FailedCallLeavesStore == [][C8_FailedCallStep]_vars

\* a call with a link in its text was refused while comments were stored
C8_Witness ==
  \E c \in Slots :
    /\ calls[c].pc = "done"
    /\ calls[c].error = <<"Comments cannot contain URLs or links">>
    /\ calls[c].data = NoRow
    /\ comments # {}

C16_UrlCallStep ==
  \A c \in Slots :
    (/\ calls'[c] # calls[c]
     /\ calls[c].pc \in {"idle", "done"}
     /\ \/ containsUrl(sanitizeText(calls'[c].args.username))
        \/ containsUrl(sanitizeText(calls'[c].args.text))) =>
      /\ calls'[c].pc = "done"
      /\ calls'[c].error # <<>>
      /\ calls'[c].data = NoRow
      /\ comments' = comments

C16_NoUrlStored == \A r \in comments : ~containsUrl(r.username) /\ ~containsUrl(r.text)

\* C16: createComment rejects, without inserting, every submission whose
\* sanitized username contains a URL (as containsUrl recognises one), just as
\* it rejects every submission whose sanitized text contains a URL.
C16_UrlInUsernameOrTextRejected == []C16_NoUrlStored /\ [][C16_UrlCallStep]_vars

\* C9: fetchReplies, getReplyCount and the parent lookup of createComment never
\* return or act on a hidden comment (hiding leaves the row stored, only
\* adminDeleteComment removes it).
C9_NonAdminReadsExcludeHidden ==
  /\ \A id \in CommentIds :
       /\ \A i \in DOMAIN repliesQuery(id, MaxComments, 0) :
            ~repliesQuery(id, MaxComments, 0)[i].hidden
       /\ replyCountQuery(id) =
            Cardinality({r \in comments : r.parent_comment_id = id /\ ~r.hidden})
  /\ \A c \in Slots :
       calls[c].parentComment.found => ~calls[c].parentComment.row.hidden

-----------------------------------------------------------------------------
(* The comment section: view filter, fade timer and page loads             *)

S_all == <<"a","l","l">>
S_null == <<"n","u","l","l">>

\* `${v}` of a template string
templateString(v) ==
  IF v.t = "string" THEN v.v
  ELSE IF v.t = "null" THEN S_null
  ELSE <<"u","n","d","e","f","i","n","e","d">>

filterKey(level, subject) ==
  IF Falsy(level) /\ Falsy(subject) THEN S_all
  ELSE templateString(level) \o <<"_","_">> \o templateString(subject)

\* CommentSection.jsx lines 21-34: the canonical orders
LEVEL_ORDER ==
  << <<"P","1">>,
     <<"P","2">>,
     <<"P","3">>,
     <<"P","4">>,
     <<"P","5">>,
     <<"P","6">>,
     <<"S","1">>,
     <<"S","2">>,
     <<"S","3">>,
     <<"S","4">>,
     <<"S","5">>,
     <<"J","C","1">>,
     <<"J","C","2">>,
     <<"I","B">>,
     <<"Y","5"," ","(","I","B",")">>,
     <<"Y","6"," ","(","I","B",")">> >>

SUBJECT_ORDER ==
  << <<"B","i","o","l","o","g","y">>,
     <<"C","h","e","m","i","s","t","r","y">>,
     <<"P","h","y","s","i","c","s">>,
     <<"S","c","i","e","n","c","e">>,
     <<"M","a","t","h","e","m","a","t","i","c","s">>,
     <<"H","i","g","h","e","r"," ","C","h","i","n","e","s","e">>,
     <<"C","h","i","n","e","s","e">>,
     <<"E","n","g","l","i","s","h">>,
     <<"E","c","o","n","o","m","i","c","s">>,
     <<"H","i","s","t","o","r","y">>,
     <<"S","o","c","i","a","l"," ","S","t","u","d","i","e","s">>,
     <<"L","i","t","e","r","a","t","u","r","e">>,
     <<"G","e","o","g","r","a","p","h","y">>,
     <<"G","e","n","e","r","a","l"," ","P","a","p","e","r">>,
     <<"P","O","A">>,
     <<"M","a","l","a","y">>,
     <<"E","n","g","l","i","s","h"," ","L","a","n","g","u","a","g","e"," ","&"," ","L","i","n","g","u","i","s","t","i","c","s">>,
     <<"E","n","g","l","i","s","h"," ","L","a","n","g","u","a","g","e"," ","&"," ","L","i","t","e","r","a","t","u","r","e">>,
     <<"C","h","i","n","a"," ","S","t","u","d","i","e","s"," ","i","n"," ","E","n","g","l","i","s","h">> >>

\* Array.prototype.indexOf: the first position (from 0) of x, -1 if absent
indexOf(array, x) ==
  IF \E i \in DOMAIN array : array[i] = x
  THEN (CHOOSE i \in DOMAIN array :
          array[i] = x /\ \A j \in DOMAIN array : array[j] = x => i <= j) - 1
  ELSE -1

UnknownRank == 9999

\* la === -1 ? 9999 : la
orderIndex(array, x) == IF indexOf(array, x) = -1 THEN UnknownRank ELSE indexOf(array, x)

\* The collation of the characters used: punctuation, digits, letters; a
\* lower-case letter and its capital share a primary weight.
CollationSeq == <<" ", "_", "&", "(", ")">> \o DigitSeq \o LowerSeq

primaryWeight(c) ==
  IF toLowerCaseChar(c) \in Range(CollationSeq)
  THEN IndexIn(CollationSeq, toLowerCaseChar(c)) ELSE 0

RECURSIVE compareBy(_, _, _)
compareBy(weight(_), a, b) ==
  IF a = <<>> /\ b = <<>> THEN 0
  ELSE IF a = <<>> THEN -1
  ELSE IF b = <<>> THEN 1
  ELSE IF weight(Head(a)) < weight(Head(b)) THEN -1
  ELSE IF weight(Head(a)) > weight(Head(b)) THEN 1
  ELSE compareBy(weight, Tail(a), Tail(b))

caseWeight(c) == IF c \in Upper THEN 1 ELSE 0

\* String.prototype.localeCompare: by primary weights, ties broken by case
\* (lower case first)
localeCompare(a, b) ==
  IF compareBy(primaryWeight, a, b) # 0 THEN compareBy(primaryWeight, a, b)
  ELSE compareBy(caseWeight, a, b)

\* CommentSection.jsx lines 99-114: the comparator of items.sort
compareOfferings(a, b) ==
  LET laIdx == orderIndex(LEVEL_ORDER, a.level.v)
      lbIdx == orderIndex(LEVEL_ORDER, b.level.v)
      saIdx == orderIndex(SUBJECT_ORDER, a.subject.v)
      sbIdx == orderIndex(SUBJECT_ORDER, b.subject.v)
      levelCmp == localeCompare(a.level.v, b.level.v)
  IN IF laIdx # lbIdx THEN laIdx - lbIdx
     ELSE IF saIdx # sbIdx THEN saIdx - sbIdx
     ELSE IF levelCmp # 0 THEN levelCmp
     ELSE localeCompare(a.subject.v, b.subject.v)

\* Array.prototype.sort (stable): insertion of x after the items not above it
RECURSIVE insertSorted(_, _, _)
insertSorted(compare(_, _), items, x) ==
  IF items = <<>> THEN <<x>>
  ELSE IF compare(Head(items), x) <= 0
       THEN <<Head(items)>> \o insertSorted(compare, Tail(items), x)
  ELSE <<x>> \o items

RECURSIVE sort(_, _)
sort(compare(_, _), items) ==
  IF items = <<>> THEN <<>>
  ELSE insertSorted(compare, sort(compare, SubSeq(items, 1, Len(items) - 1)),
                    items[Len(items)])

\* the entry of the offerings list built from an offering of the centre
Offering(o) == [key |-> filterKey(o.level, o.subject), level |-> o.level, subject |-> o.subject]

\* CommentSection.jsx lines 82-96: offerings lacking a level or a subject are
\* skipped, the others kept at the first occurrence of their key
RECURSIVE dedupe(_, _)
dedupe(centreOfferings, seen) ==
  IF centreOfferings = <<>> THEN <<>>
  ELSE LET offering == Head(centreOfferings)
           key == filterKey(offering.level, offering.subject)
       IN IF Falsy(offering.level) \/ Falsy(offering.subject)
            THEN dedupe(Tail(centreOfferings), seen)
          ELSE IF key \in seen
            THEN dedupe(Tail(centreOfferings), seen)
          ELSE <<Offering(offering)>> \o dedupe(Tail(centreOfferings), seen \cup {key})

\* CommentSection.jsx lines 78-119: the offerings list of a centre
sortedOfferings(centreOfferings) == sort(compareOfferings, dedupe(centreOfferings, {}))

\* CommentSection.jsx lines 122-135: a header whenever the level changes
RECURSIVE groupFrom(_, _)
groupFrom(items, currentLevel) ==
  IF items = <<>> THEN <<>>
  ELSE IF Head(items).level # currentLevel
       THEN << [type |-> "header", level |-> Head(items).level, key |-> <<>>],
               [type |-> "item", level |-> Head(items).level, key |-> Head(items).key] >>
            \o groupFrom(Tail(items), Head(items).level)
  ELSE << [type |-> "item", level |-> Head(items).level, key |-> Head(items).key] >>
       \o groupFrom(Tail(items), currentLevel)

groupedOfferings(items) == groupFrom(items, JsNull)

\* the offerings of the centre shown, in canonical order
offerings == sortedOfferings(<<S2Eng, P1Maths, S2Eng>>)

\* the values of the menu items of the view selector
MenuValues == {S_all} \cup {offerings[i].key : i \in DOMAIN offerings}

activeFilter(key) ==
  IF key = S_all THEN JsNull
  ELSE IF \E i \in DOMAIN offerings : offerings[i].key = key
       THEN LET i == CHOOSE j \in DOMAIN offerings :
                       /\ offerings[j].key = key
                       /\ \A k \in DOMAIN offerings : offerings[k].key = key => j <= k
            IN  [level |-> offerings[i].level, subject |-> offerings[i].subject]
       ELSE JsNull

PageSize == 20
FadeDelay == 150
NoTimer == 0

TickMs == 50
MaxSelections == 2
MaxOffset == 40
ScrollTops == {0, 300}

\* what a fetch may answer: an error, or a page of some length
PageLengths == {0, 1, PageSize}
Answers == {[error |-> TRUE, length |-> 0]} \cup
           {[error |-> FALSE, length |-> n] : n \in PageLengths}

\* the rows offset+1 .. offset+length of the comments matching a filter
Page(filter, from, length) == [filter |-> filter, offset |-> from, length |-> length]

\* data.length === 20
isFullPageIfAny(length) == length > 0

isFullPage(length) == length = PageSize

clearTimeoutNothing(ts, id) == ts

clearTimeout(ts, id) == {t \in ts : t.id # id}

\* a timer is due when none of its delay is left
setTimeout(ts, id, value, delay) == ts \cup {[id |-> id, value |-> value, left |-> delay]}

\* an entry of the history; gap is the time since the previous selection, top
\* the scroll offset of the reviews area at a selection
Event(e, v, id) ==
  [e |-> e, v |-> v, id |-> id, gap |-> IF e = "select" THEN sinceSelection ELSE 0,
   top |-> IF e = "select" THEN scroll.top ELSE 0]

\* loadComments up to its await, called by the effect on [centreId, viewFilter]
\* in the render where viewFilter is key
loadComments(key, log) ==
  /\ loading' = TRUE
  /\ viewError' = <<>>
  /\ fetches' = fetches \cup
       {[id |-> Len(log) + 1, kind |-> "load", filter |-> activeFilter(key), offset |-> 0,
         scrolled |-> FALSE]}
  /\ history' = Append(log, Event("load", key, Len(log) + 1))

\* loadComments after its await
loadComments_answer(f, a) ==
  /\ f \in fetches
  /\ f.kind = "load"
  /\ fetches' = fetches \ {f}
  /\ IF a.error
       THEN /\ viewError' = <<"fetchError">>
            /\ UNCHANGED <<list, hasMore, offset>>
       ELSE /\ list' = IF a.length = 0 THEN <<>> ELSE <<Page(f.filter, 0, a.length)>>
            /\ hasMore' = isFullPage(a.length)
            /\ offset' = PageSize
            /\ UNCHANGED viewError
  /\ loading' = FALSE
  /\ scroll' = [scroll EXCEPT
                  !.top = IF ~scroll.userScrolledDuringLoad THEN scroll.savedScrollTop ELSE @,
                  !.userScrolledDuringLoad = FALSE]
  /\ UNCHANGED <<viewFilter, contentOpacity, fadeTimeoutRef, timers, loadingMore, sinceSelection, history>>
  /\ UNCHANGED <<clickVars, storeVars, served, write>>

\* a click on 'Load more reviews': loadMoreComments up to its await
loadMoreComments ==
  /\ ~loading
  /\ list # <<>>
  /\ hasMore
  /\ ~loadingMore
  /\ offset + PageSize <= MaxOffset
  /\ loadingMore' = TRUE
  /\ fetches' = fetches \cup
       {[id |-> 0, kind |-> "more", filter |-> activeFilter(viewFilter), offset |-> offset,
         scrolled |-> FALSE]}
  /\ UNCHANGED <<viewFilter, contentOpacity, fadeTimeoutRef, timers, loading, viewError,
                 list, hasMore, offset, scroll, sinceSelection, history>>
  /\ UNCHANGED <<clickVars, storeVars, served, write>>

\* loadMoreComments after its await
loadMoreComments_answer(f, a) ==
  /\ f \in fetches
  /\ f.kind = "more"
  /\ fetches' = fetches \ {f}
  /\ IF a.error
       THEN /\ viewError' = <<"fetchError">>
            /\ UNCHANGED <<list, hasMore, offset>>
       ELSE /\ list' = IF a.length = 0 THEN list
                       ELSE Append(list, Page(f.filter, f.offset, a.length))
            /\ hasMore' = isFullPage(a.length)
            /\ offset' = offset + PageSize
            /\ UNCHANGED viewError
  /\ loadingMore' = FALSE
  /\ UNCHANGED <<viewFilter, contentOpacity, fadeTimeoutRef, timers, loading, scroll,
                 sinceSelection, history>>
  /\ UNCHANGED <<clickVars, storeVars, served, write>>

\* lines 170-172; each fetch in flight records that the user scrolled meanwhile
handleScroll(top) ==
  /\ top # scroll.top
  /\ scroll' = [scroll EXCEPT !.top = top,
                              !.userScrolledDuringLoad = IF loading THEN TRUE ELSE @]
  /\ fetches' = {[f EXCEPT !.scrolled = TRUE] : f \in fetches}
  /\ UNCHANGED <<viewFilter, contentOpacity, fadeTimeoutRef, timers, loading, loadingMore,
                 viewError, list, hasMore, offset, sinceSelection, history>>
  /\ UNCHANGED <<clickVars, storeVars, served, write>>

handleViewFilterChange(newValue) ==
  /\ IF newValue = viewFilter
       THEN UNCHANGED <<scroll, contentOpacity, timers, fadeTimeoutRef>>
       ELSE /\ scroll' = [scroll EXCEPT !.savedScrollTop = scroll.top,
                                        !.userScrolledDuringLoad = FALSE]
            /\ contentOpacity' = 0
            /\ timers' = setTimeout(IF fadeTimeoutRef # NoTimer
                                      THEN clearTimeout(timers, fadeTimeoutRef)
                                      ELSE timers,
                                    Len(history) + 1, newValue, FadeDelay)
            /\ fadeTimeoutRef' = Len(history) + 1
  /\ history' = Append(history, Event("select", newValue, Len(history) + 1))
  /\ sinceSelection' = 0
  /\ UNCHANGED <<viewFilter, loading, loadingMore, viewError, list, hasMore, offset,
                 fetches>>
  /\ UNCHANGED <<clickVars, storeVars, served, write>>

\* the user picks a menu item of the view selector
Select_onChange(value) ==
  /\ value \in MenuValues
  /\ Cardinality({i \in DOMAIN history : history[i].e = "select"}) < MaxSelections
  /\ handleViewFilterChange(value)

\* the callback of the fade timer, and the effect of the render that follows
fadeTimeout(t) ==
  /\ t \in timers
  /\ t.left = 0
  /\ timers' = timers \ {t}
  /\ viewFilter' = t.value
  /\ contentOpacity' = 1
  /\ IF t.value # viewFilter
       THEN loadComments(t.value, Append(history, Event("swap", t.value, t.id)))
       ELSE /\ history' = Append(history, Event("swap", t.value, t.id))
            /\ UNCHANGED <<loading, viewError, fetches>>
  /\ UNCHANGED <<fadeTimeoutRef, loadingMore, list, hasMore, offset, scroll, sinceSelection>>
  /\ UNCHANGED <<clickVars, storeVars, served, write>>

\* time passes
tick ==
  /\ sinceSelection < FadeDelay \/ \E t \in timers : t.left > 0
  /\ sinceSelection' = IF sinceSelection + TickMs > FadeDelay THEN FadeDelay
                        ELSE sinceSelection + TickMs
  /\ timers' = {[t EXCEPT !.left = IF @ > TickMs THEN @ - TickMs ELSE 0] : t \in timers}
  /\ UNCHANGED <<viewFilter, contentOpacity, fadeTimeoutRef, loading, loadingMore,
                 viewError, list, hasMore, offset, scroll, fetches, history>>
  /\ UNCHANGED <<clickVars, storeVars, served, write>>

SelectFilter == \E value \in MenuValues : Select_onChange(value)
FadeTimeout == \E t \in timers : fadeTimeout(t)
LoadAnswers == \E f \in fetches, a \in Answers : loadComments_answer(f, a)
LoadMore == loadMoreComments
LoadMoreAnswers == \E f \in fetches, a \in Answers : loadMoreComments_answer(f, a)
Scroll == \E top \in ScrollTops : handleScroll(top)
Tick == tick

-----------------------------------------------------------------------------
(* The comment section (CommentSection.jsx): the write flow                *)

NotSubmitting == [pc |-> "none"]

\* lines 51-52, 63-64 and 150-153: the state of the write flow when the section
\* of a centre with the given offerings mounts, storedUsername being the
\* 'podsee_username' item of sessionStorage ('' if there is none)
Mounted(centreOfferings, storedUsername) ==
  [offerings |-> sortedOfferings(centreOfferings), username |-> storedUsername,
   showUsernamePrompt |-> FALSE, writeClass |-> <<>>, showWriteInput |-> FALSE,
   submit |-> NotSubmitting]

\* line 138: offerings.length === 1 ? offerings[0] : null
singleOffering(w) == IF Len(w.offerings) = 1 THEN w.offerings[1] ELSE JsNull

\* lines 239-243: offerings.find(o => o.key === writeClass) || null
writeClassParsed(w) ==
  IF w.writeClass = <<>> THEN JsNull
  ELSE IF \E i \in DOMAIN w.offerings : w.offerings[i].key = w.writeClass
       THEN w.offerings[CHOOSE i \in DOMAIN w.offerings :
              /\ w.offerings[i].key = w.writeClass
              /\ \A j \in 1..(i - 1) : w.offerings[j].key # w.writeClass]
  ELSE JsNull

\* line 251: singleOffering || writeClassParsed
classInfo(w) == IF singleOffering(w) # JsNull THEN singleOffering(w) ELSE writeClassParsed(w)

\* lines 601-609: CommentInput is rendered
composing(w) == w.showWriteInput /\ (w.writeClass # <<>> \/ singleOffering(w) # JsNull)

writeReviewClickSkippingPrompt(w) ==
  IF singleOffering(w) # JsNull
  THEN [w EXCEPT !.writeClass = singleOffering(w).key, !.showWriteInput = TRUE]
  ELSE [w EXCEPT !.showWriteInput = TRUE]

\* lines 274-286: the state after a click on 'Write a Review'
writeReviewClick(w) ==
  IF w.username = <<>> THEN [w EXCEPT !.showUsernamePrompt = TRUE]
  ELSE IF singleOffering(w) # JsNull
  THEN [w EXCEPT !.writeClass = singleOffering(w).key, !.showWriteInput = TRUE]
  ELSE [w EXCEPT !.showWriteInput = TRUE]

\* lines 274-286; the button is rendered while the write input is closed
\* (line 489)
handleWriteReviewClick ==
  /\ ~write.showWriteInput
  /\ write' = writeReviewClick(write)
  /\ UNCHANGED <<clickVars, storeVars, viewVars, served>>

\* lines 288-290; the selector lists the offerings of a centre that has
\* several (lines 531-597)
handleWriteClassChange ==
  /\ write.showWriteInput
  /\ singleOffering(write) = JsNull
  /\ \E i \in DOMAIN write.offerings :
       write' = [write EXCEPT !.writeClass = write.offerings[i].key]
  /\ UNCHANGED <<clickVars, storeVars, viewVars, served>>

\* lines 292-295; onCancel of CommentInput, or the Cancel button (lines 627-641)
handleCancelWrite ==
  /\ write.showWriteInput
  /\ write' = [write EXCEPT !.showWriteInput = FALSE, !.writeClass = <<>>]
  /\ UNCHANGED <<clickVars, storeVars, viewVars, served>>

\* lines 302-304: a reply asks for the username
handleUsernameRequired ==
  /\ ~write.showUsernamePrompt
  /\ write' = [write EXCEPT !.showUsernamePrompt = TRUE]
  /\ UNCHANGED <<clickVars, storeVars, viewVars, served>>

\* lines 297-300: onSubmit of UsernamePrompt
handleUsernameSubmit ==
  /\ write.showUsernamePrompt
  /\ \E newUsername \in {<<>>, S_bob} :
       write' = [write EXCEPT !.username = newUsername, !.showUsernamePrompt = FALSE]
  /\ UNCHANGED <<clickVars, storeVars, viewVars, served>>

\* line 651: onCancel of UsernamePrompt
UsernamePrompt_onCancel ==
  /\ write.showUsernamePrompt
  /\ write' = [write EXCEPT !.showUsernamePrompt = FALSE]
  /\ UNCHANGED <<clickVars, storeVars, viewVars, served>>

\* lines 245-263: onSubmit of CommentInput, up to the await of createComment
handleCommentSubmit ==
  /\ composing(write)
  /\ write.submit = NotSubmitting
  /\ calls["user"].pc \in {"idle", "done"}
  /\ \E text \in {JsStr(S_hi), JsStr(T_blank)} :
       IF write.username = <<>>
       THEN /\ write' = [write EXCEPT !.showUsernamePrompt = TRUE]
            /\ UNCHANGED calls
       ELSE IF classInfo(write) = JsNull
       THEN UNCHANGED <<write, calls>>
       ELSE /\ calls' = createComment_begin("user", "centre", JsStr(write.username), text,
                                            NullId, classInfo(write).level,
                                            classInfo(write).subject)
            /\ write' = [write EXCEPT !.submit = [pc |-> "awaiting"]]
  /\ UNCHANGED <<comments, nextId, clickVars, viewVars, served>>

\* lines 263-272: createComment has returned
handleCommentSubmit_answer ==
  /\ write.submit # NotSubmitting
  /\ calls["user"].pc = "done"
  /\ IF calls["user"].error # <<>>
     THEN /\ write' = [write EXCEPT !.submit = NotSubmitting]
          /\ UNCHANGED list
     ELSE /\ list' = Append(list, calls["user"].data)
          /\ write' = [write EXCEPT !.submit = NotSubmitting, !.showWriteInput = FALSE,
                                    !.writeClass = <<>>]
  /\ UNCHANGED <<viewFilter, contentOpacity, fadeTimeoutRef, timers, loading, loadingMore,
                 viewError, hasMore, offset, scroll, fetches, sinceSelection, history>>
  /\ UNCHANGED <<clickVars, storeVars, served>>

-----------------------------------------------------------------------------
(* Properties of the comment section                                       *)

Selections == {i \in DOMAIN history : history[i].e = "select"}

\* the view filter when entry i of the history was made
FilterAt(i) ==
  LET swaps == {k \in DOMAIN history : k < i /\ history[k].e = "swap"}
  IN  IF swaps = {} THEN S_all
      ELSE history[CHOOSE k \in swaps : \A m \in swaps : m <= k].v

\* selection i asked for another filter than the one shown, and selection j is
\* the next selection after it, made less than the fade delay later
Rapid(i, j) ==
  /\ i \in Selections
  /\ j \in Selections
  /\ i < j
  /\ history[i].v # FilterAt(i)
  /\ \A k \in Selections : ~(i < k /\ k < j)
  /\ history[j].gap < FadeDelay

\* the history after selection j, up to the next selection
FollowUp(j) ==
  LET later == {k \in Selections : k > j}
      last  == IF later = {} THEN Len(history)
               ELSE (CHOOSE k \in later : \A m \in later : k <= m) - 1
  IN  SubSeq(history, j + 1, last)

\* C10: of two view-filter selections made within 150 ms of each other, only
\* the second is carried out: its selection cancels the pending timer of the
\* first, so that at most one filter switch is pending, and it results in
\* exactly one filter swap and one reload, for the second selection's value.
C10_RapidSelectionsLastWins ==
  /\ Cardinality(timers) <= 1
  /\ \A t \in timers :
       /\ t.id \in Selections
       /\ \A k \in Selections : k <= t.id
       /\ t.value = history[t.id].v
       /\ FollowUp(t.id) = <<>>
  /\ \A i, j \in Selections :
       Rapid(i, j) =>
         /\ j = i + 1
         /\ \A k \in DOMAIN history : history[k].e = "swap" => history[k].id # i
         /\ \/ /\ FollowUp(j) = <<>>
               /\ \/ \E t \in timers : t.id = j
                  \/ \E k \in Selections : k > j
            \/ /\ Len(FollowUp(j)) = 2
               /\ FollowUp(j)[1] = [e |-> "swap", v |-> history[j].v, id |-> j, gap |-> 0,
                                   top |-> 0]
               /\ FollowUp(j)[2] = [e |-> "load", v |-> history[j].v, id |-> j + 2, gap |-> 0,
                                   top |-> 0]
               /\ \A f \in fetches :
                    f.id = j + 2 => f.kind = "load" /\ f.filter = activeFilter(history[j].v)

\* C11: a load that returns a page sets hasMore to whether the page has
\* exactly 20 rows; an initial load shows that page alone and sets the offset to
\* 20, a load more appends the page to the list and adds 20 to the offset.
C11_PageLoadStep ==
  \A f \in fetches, a \in Answers :
    /\ (loadComments_answer(f, a) /\ ~a.error) =>
         /\ hasMore' = (a.length = 20)
         /\ offset' = 20
         /\ list' = IF a.length = 0 THEN <<>>
                    ELSE <<[filter |-> f.filter, offset |-> 0, length |-> a.length]>>
    /\ (loadMoreComments_answer(f, a) /\ ~a.error) =>
         /\ hasMore' = (a.length = 20)
         /\ offset' = offset + 20
         /\ f.offset = offset =>
              list' = IF a.length = 0 THEN list
                      ELSE list \o <<[filter |-> f.filter, offset |-> offset,
                                      length |-> a.length]>>
         /\ Len(list') >= Len(list)
         /\ SubSeq(list', 1, Len(list)) = list

C11_PageLoadsSetHasMoreAndOffset == [][C11_PageLoadStep]_vars

\* a full first page followed by a short second page: nothing more to load
C11_Witness ==
  /\ fetches = {}
  /\ Len(list) = 2
  /\ list[1].length = 20
  /\ list[2].offset = 20
  /\ list[2].length = 1
  /\ offset = 40
  /\ ~hasMore
  /\ ~loading
  /\ ~loadingMore

\* the scroll offset at the selection that led to reload f: the load event of
\* f follows the swap event, which names its selection
C22_Captured(f) == history[history[f.id - 1].id].top

C22_LoadCompletes ==
  \A f \in fetches, a \in Answers :
    loadComments_answer(f, a) =>
      /\ scroll'.userScrolledDuringLoad = FALSE
      /\ f.id # 1 =>
           IF f.scrolled THEN scroll'.top = scroll.top
           ELSE scroll'.top = C22_Captured(f)

\* C22: when the reload started by a view-filter change completes, the scroll
\* offset captured at the selection is restored if and only if the user did
\* not scroll while that load was in progress; every load completion resets
\* the 'user scrolled during load' flag.
C22_ScrollRestoredUnlessScrolled == [][C22_LoadCompletes]_vars

C23_Settled ==
  (fetches = {} /\ viewError = <<>>) =>
    \A i \in DOMAIN list : list[i].filter = activeFilter(viewFilter)

C23_StaleAnswer ==
  \A f \in fetches, a \in Answers :
    ((loadComments_answer(f, a) \/ loadMoreComments_answer(f, a))
       /\ f.filter # activeFilter(viewFilter)) =>
      /\ list' = list
      /\ hasMore' = hasMore
      /\ offset' = offset

\* C23: whatever the order in which the fetches of view-filter changes and
\* load-more clicks complete, once no fetch is in flight the list shown,
\* hasMore and offset come from fetches issued for the active filter only: the
\* answer to a fetch issued for an earlier filter neither replaces nor
\* extends the list shown for the current one.
C23_OnlyCurrentFilterShown == []C23_Settled /\ [][C23_StaleAnswer]_vars

\* the reloads started by a filter swap (the load of the mount has id 1)
C21_Reloading == {f \in fetches : f.kind = "load" /\ f.id # 1}

\* C21: on a view-filter change the content is faded back in (opacity back to
\* 1) only after the comments of the new filter have been reloaded: fade-out,
\* the 150 ms timer, the swap of the filter, the completed reload, fade-in.
C21_FadeInAfterReload ==
  /\ [](contentOpacity = 1 => C21_Reloading = {})
  /\ [][(contentOpacity = 0 /\ contentOpacity' = 1) =>
          (\E f \in fetches, a \in Answers : loadComments_answer(f, a))]_vars

-----------------------------------------------------------------------------
(* commentService: what each operation returns for each answer of the backend *)

NotServed == [op |-> "none"]

JsNum(n) == [t |-> "number", v |-> n]

\* the answers of one backend call: a value (possibly null), a returned error,
\* or an exception thrown by the awaited call
Answered(data)  == [kind |-> "ok", data |-> data, message |-> <<>>]
Failed(message) == [kind |-> "error", data |-> JsNull, message |-> message]
Threw(message)  == [kind |-> "throw", data |-> JsNull, message |-> message]
Failures == {Failed(<<"error.message">>), Threw(<<"thrown.message">>)}
RowsAnswers  == {Answered(d) : d \in {JsNull, JsArr(<<>>), JsArr(<<2, 1>>)}} \cup Failures
CountAnswers == {Answered(d) : d \in {JsNull, JsNum(0), JsNum(2)}} \cup Failures
RowAnswers   == {Answered(JsNum(1)), Answered(JsNull)} \cup Failures

\* how a function body ends: it returns a value or throws
Return(value)  == [thrown |-> FALSE, value |-> value, message |-> <<>>]
Throw(message) == [thrown |-> TRUE, value |-> JsNull, message |-> message]

\* const { data, error } = await ...; if (error) throw error;
awaitOrThrow(resp, value) ==
  IF resp.kind = "ok" THEN Return(value) ELSE Throw(resp.message)

tryCatchRethrow(body, failure) == body

\* try { body } catch (error) { return { ...failure, error: error.message } }
tryCatch(body, failure) ==
  IF body.thrown
  THEN Return([failure EXCEPT !.error = JsStr(body.message)])
  ELSE body

\* a default parameter value
Default(v, d) == IF v = JsUndef THEN d ELSE v

NoData == [data |-> JsArr(<<>>), error |-> JsNull]

fetchCommentsBasic(basic) ==
  tryCatch(awaitOrThrow(basic, [data |-> OrElse(basic.data, JsArr(<<>>)), error |-> JsNull]),
           NoData)

RPC_context == "get_comments_with_reply_count_by_context"
RPC_basic   == "get_comments_with_reply_count"

\* the value fetchComments returns, and the remote procedures it invoked
fetchComments(level, subject, context, basic) ==
  LET useContextFilter ==
        Default(level, JsNull) # JsUndef \/ Default(subject, JsNull) # JsUndef
  IN  IF useContextFilter
      THEN IF context.kind = "throw"
             THEN [invoked |-> <<RPC_context>>,
                   result  |-> tryCatch(Throw(context.message), NoData)]
           ELSE IF context.kind = "error"
             THEN [invoked |-> <<RPC_context, RPC_basic>>,
                   result  |-> tryCatch(fetchCommentsBasic(basic), NoData)]
           ELSE [invoked |-> <<RPC_context>>,
                 result  |-> tryCatch(Return([data |-> OrElse(context.data, JsArr(<<>>)),
                                              error |-> JsNull]), NoData)]
      ELSE [invoked |-> <<RPC_basic>>,
            result  |-> tryCatch(fetchCommentsBasic(basic), NoData)]

fetchReplies(resp) ==
  tryCatch(awaitOrThrow(resp, [data |-> OrElse(resp.data, JsArr(<<>>)), error |-> JsNull]),
           NoData)

getReplyCount(resp) ==
  tryCatch(awaitOrThrow(resp, [count |-> OrElse(resp.data, JsNum(0)), error |-> JsNull]),
           [count |-> JsNum(0), error |-> JsNull])

adminFetchAllComments(resp) ==
  tryCatch(awaitOrThrow(resp, [data |-> OrElse(resp.data, JsArr(<<>>)), error |-> JsNull]),
           NoData)

\* the value adminToggleHidden returns
adminToggleHidden_result(resp) ==
  tryCatch(awaitOrThrow(resp, [data |-> resp.data, error |-> JsNull]),
           [data |-> JsNull, error |-> JsNull])

\* the value adminDeleteComment returns
adminDeleteComment_result(resp) ==
  tryCatch(awaitOrThrow(resp, [error |-> JsNull]), [error |-> JsNull])

\* the level and subject arguments of a fetchComments call
FilterArgs == {<<JsUndef, JsUndef>>, <<JsNull, JsNull>>, <<JsStr(S_P1), JsStr(S_Maths)>>}

Served(op, args, answers, invoked, outcome) ==
  [op |-> op, args |-> args, answers |-> answers, invoked |-> invoked, outcome |-> outcome]

FetchComments ==
  /\ \E filter \in FilterArgs, context \in RowsAnswers, basic \in RowsAnswers :
       LET r == fetchComments(filter[1], filter[2], context, basic)
       IN  served' = Served("fetchComments", filter, <<context, basic>>, r.invoked, r.result)
  /\ UNCHANGED <<clickVars, storeVars, viewVars, write>>

FetchReplies ==
  /\ \E resp \in RowsAnswers :
       served' = Served("fetchReplies", <<>>, <<resp>>, <<"comments">>, fetchReplies(resp))
  /\ UNCHANGED <<clickVars, storeVars, viewVars, write>>

GetReplyCount ==
  /\ \E resp \in CountAnswers :
       served' = Served("getReplyCount", <<>>, <<resp>>, <<"comments">>, getReplyCount(resp))
  /\ UNCHANGED <<clickVars, storeVars, viewVars, write>>

AdminFetchAllComments ==
  /\ \E resp \in RowsAnswers :
       served' = Served("adminFetchAllComments", <<>>, <<resp>>, <<"comments">>,
                        adminFetchAllComments(resp))
  /\ UNCHANGED <<clickVars, storeVars, viewVars, write>>

AdminToggleHiddenReturns ==
  /\ \E resp \in RowAnswers :
       served' = Served("adminToggleHidden", <<>>, <<resp>>, <<"comments">>,
                        adminToggleHidden_result(resp))
  /\ UNCHANGED <<clickVars, storeVars, viewVars, write>>

AdminDeleteCommentReturns ==
  /\ \E resp \in {Answered(JsNull)} \cup Failures :
       served' = Served("adminDeleteComment", <<>>, <<resp>>, <<"comments">>,
                        adminDeleteComment_result(resp))
  /\ UNCHANGED <<clickVars, storeVars, viewVars, write>>

\* C12: whenever the context-aware procedure of a fetchComments call with a
\* level and a subject fails, by a returned error or by a thrown exception, the
\* basic procedure is invoked and its result is what fetchComments returns.
C12_ContextFailureFallsBack ==
  (/\ served.op = "fetchComments"
   /\ ~Falsy(served.args[1])
   /\ ~Falsy(served.args[2])
   /\ served.answers[1].kind # "ok") =>
    /\ served.invoked = <<RPC_context, RPC_basic>>
    /\ ~served.outcome.thrown
    /\ served.outcome.value.error # JsNull <=> served.answers[2].kind # "ok"
    /\ served.answers[2].kind = "ok" =>
         served.outcome.value.data = OrElse(served.answers[2].data, JsArr(<<>>))

\* the answer of the last backend call an operation made
LastAnswer(s) == s.answers[Len(s.invoked)]

\* C13 as claimed: whenever a backend call of an operation fails, by a returned
\* error or a thrown exception, the operation returns normally with an error
\* and with empty or null data.
C13_AnyFailureIsReported ==
  (/\ served.op # "none"
   /\ \E i \in 1..Len(served.invoked) : served.answers[i].kind # "ok") =>
    /\ ~served.outcome.thrown
    /\ ~Falsy(served.outcome.value.error)
    /\ served.op \in {"fetchComments", "fetchReplies", "adminFetchAllComments"} =>
         served.outcome.value.data = JsArr(<<>>)

\* C13 as amended: whenever the last backend call an operation makes fails, by
\* a returned error or a thrown exception, the operation returns normally with
\* that error's message and with empty or null data, and no exception reaches
\* the caller; an error returned by the context-aware procedure of
\* fetchComments is not reported when the basic procedure then answers.
C13_FailureState ==
  /\ served.op # "none" =>
       /\ ~served.outcome.thrown
       /\ LastAnswer(served).kind # "ok" =>
            /\ served.outcome.value.error = JsStr(LastAnswer(served).message)
            /\ ~Falsy(served.outcome.value.error)
            /\ served.op \in {"fetchComments", "fetchReplies", "adminFetchAllComments"} =>
                 served.outcome.value.data = JsArr(<<>>)
            /\ served.op = "getReplyCount" => served.outcome.value.count = JsNum(0)
            /\ served.op = "adminToggleHidden" => served.outcome.value.data = JsNull
  /\ \A c \in Slots :
       calls[c].pc = "done" => (calls[c].data = NoRow <=> calls[c].error # <<>>)

C13_FailureStep ==
  \A c \in Slots, outcome \in {"error", "throw"} :
    (createComment_parent(c, outcome) \/ createComment_insert(c, outcome)) =>
      /\ calls'[c].pc = "done"
      /\ calls'[c].data = NoRow
      /\ calls'[c].error # <<>>
      /\ comments' = comments

C13_FailuresAreStructured == []C13_FailureState /\ [][C13_FailureStep]_vars

\* fetchReplies has returned after its query threw, and a createComment call
\* has returned after its backend call failed
C13_Witness ==
  /\ served.op = "fetchReplies"
  /\ served.answers[1].kind = "throw"
  /\ served.outcome.value.error = JsStr(<<"thrown.message">>)
  /\ \E c \in Slots : calls[c].pc = "done" /\ calls[c].error = <<"error.message">>

-----------------------------------------------------------------------------
(* Specifications                                                          *)

ClickIdle ==
  /\ reqs = <<>>
  /\ centre = JsUndef
  /\ opened = <<>>
  /\ viteEnv = JsUndef
  /\ pings = <<>>

StoreIdle ==
  /\ comments = {}
  /\ nextId = 1
  /\ calls = [c \in Slots |-> IdleCall]
  /\ served = NotServed

\* the comment section before it is mounted
ViewIdle ==
  /\ viewFilter = S_all
  /\ contentOpacity = 1
  /\ fadeTimeoutRef = NoTimer
  /\ timers = {}
  /\ loading = TRUE
  /\ loadingMore = FALSE
  /\ viewError = <<>>
  /\ list = <<>>
  /\ hasMore = FALSE
  /\ offset = 0
  /\ scroll = [top |-> 0, savedScrollTop |-> 0, userScrolledDuringLoad |-> FALSE]
  /\ fetches = {}
  /\ sinceSelection = FadeDelay
  /\ history = <<>>
  /\ write = Mounted(<<S2Eng, P1Maths, S2Eng>>, <<>>)

\* the redirect endpoint answering requests
InitRedirect ==
  /\ env \in WebhookUrls
  /\ ClickIdle
  /\ StoreIdle
  /\ ViewIdle

NextRedirect == Receive \/ Fulfil \/ Reject

SpecRedirect == InitRedirect /\ [][NextRedirect]_vars

\* the centre modal of one centre, its clicks and the endpoint behind them
InitClick ==
  /\ env \in WebhookUrls
  /\ viteEnv \in WebhookUrls
  /\ centre \in Centres
  /\ reqs = <<>>
  /\ opened = <<>>
  /\ pings = <<>>
  /\ StoreIdle
  /\ ViewIdle

NextClick ==
  \/ handlePrimaryAction
  \/ handleWebsiteClick
  \/ CentreModal_handlePrimaryAction
  \/ CentreModal_handleWebsiteClick
  \/ TimerFires
  \/ PingSettles
  \/ Navigate
  \/ Fulfil
  \/ Reject

SpecClick == InitClick /\ [][NextClick]_vars

\* the comments table under createComment calls, reads and admin operations
InitStore ==
  /\ env = JsUndef
  /\ ClickIdle
  /\ StoreIdle
  /\ ViewIdle

NextStore ==
  \/ Create
  \/ ParentAnswers
  \/ InsertAnswers
  \/ AdminToggle
  \/ AdminDelete

SpecStore == InitStore /\ [][NextStore]_vars

\* the comment section of a centre, mounted without level and subject props:
\* its first render has run the effect that loads the comments
InitView ==
  /\ env = JsUndef
  /\ ClickIdle
  /\ StoreIdle
  /\ viewFilter = S_all
  /\ contentOpacity = 1
  /\ fadeTimeoutRef = NoTimer
  /\ timers = {}
  /\ loading = TRUE
  /\ loadingMore = FALSE
  /\ viewError = <<>>
  /\ list = <<>>
  /\ hasMore = FALSE
  /\ offset = 0
  /\ scroll = [top |-> 0, savedScrollTop |-> 0, userScrolledDuringLoad |-> FALSE]
  /\ fetches = {[id |-> 1, kind |-> "load", filter |-> activeFilter(S_all), offset |-> 0,
                  scrolled |-> FALSE]}
  /\ sinceSelection = FadeDelay
  /\ history = <<[e |-> "load", v |-> S_all, id |-> 1, gap |-> 0, top |-> 0]>>
  /\ write = Mounted(<<S2Eng, P1Maths, S2Eng>>, <<>>)

NextView ==
  \/ SelectFilter
  \/ FadeTimeout
  \/ LoadAnswers
  \/ LoadMore
  \/ LoadMoreAnswers
  \/ Scroll
  \/ Tick

SpecView == InitView /\ [][NextView]_vars

\* the operations of commentService called one at a time, each with every
\* answer the backend can give; createComment calls run against the table
-----------------------------------------------------------------------------
(* The comment section reading from the comments table: loads and          *)
(* submissions of one centre, the backend serving each fetch from the      *)
(* table as it stands when the fetch is served                             *)

\* a top-level comment stored before the section mounts; older ones have
\* lower ids
SeedRow(k, class) ==
  [comment_id |-> 0 - k, created_at |-> 0 - k, centre_id |-> "centre", username |-> S_bob,
   text |-> S_hi, parent_comment_id |-> NullId, level |-> class.level,
   subject |-> class.subject, hidden |-> FALSE]

\* n reviews of P1 Maths and an older one of S2 English
Seeds(n) == {SeedRow(k, P1Maths) : k \in 1..n} \cup {SeedRow(n + 1, S2Eng)}

\* the visible top-level comments, newest first
topLevelNewestFirst(rs) ==
  Reverse(orderByCreatedAt({r \in rs : r.parent_comment_id = NullId /\ r.hidden = FALSE}))

\* part_000 lines 166-174: what get_comments_with_reply_count_by_context
\* returns
commentsByContext(level, subject, limit, from) ==
  range(topLevelNewestFirst({r \in comments : r.level = level /\ r.subject = subject}),
        from, from + limit - 1)

\* part_000 lines 197-202: what get_comments_with_reply_count returns
commentsBasic(limit, from) == range(topLevelNewestFirst(comments), from, from + limit - 1)

\* lines 177-183 and 202-207 of CommentSection.jsx: the result of
\* fetchComments(centreId, 20, f.offset, activeLevel, activeSubject), the
\* context-aware procedure being available or not
fetched(f, available) ==
  LET activeLevel   == IF f.filter = JsNull THEN JsNull ELSE f.filter.level
      activeSubject == IF f.filter = JsNull THEN JsNull ELSE f.filter.subject
  IN fetchComments(activeLevel, activeSubject,
                   IF available
                   THEN Answered(JsArr(commentsByContext(activeLevel, activeSubject,
                                                         PageSize, f.offset)))
                   ELSE Failed(<<"error.message">>),
                   Answered(JsArr(commentsBasic(PageSize, f.offset)))).result.value

\* CommentSection.jsx lines 181-196: loadComments after its await, the answer
\* coming from the table
loadComments_served(f, available) ==
  /\ f \in fetches
  /\ f.kind = "load"
  /\ fetches' = fetches \ {f}
  /\ IF ~Falsy(fetched(f, available).error)
       THEN /\ viewError' = fetched(f, available).error.v
            /\ UNCHANGED <<list, hasMore, offset>>
       ELSE /\ list' = fetched(f, available).data.v
            /\ hasMore' = isFullPage(Len(fetched(f, available).data.v))
            /\ offset' = PageSize
            /\ UNCHANGED viewError
  /\ loading' = FALSE
  /\ scroll' = [scroll EXCEPT
                  !.top = IF ~scroll.userScrolledDuringLoad THEN scroll.savedScrollTop ELSE @,
                  !.userScrolledDuringLoad = FALSE]
  /\ UNCHANGED <<viewFilter, contentOpacity, fadeTimeoutRef, timers, loadingMore,
                 sinceSelection, history>>
  /\ UNCHANGED <<clickVars, storeVars, served, write>>

\* CommentSection.jsx lines 205-215: loadMoreComments after its await, the
\* answer coming from the table
loadMoreComments_served(f, available) ==
  /\ f \in fetches
  /\ f.kind = "more"
  /\ fetches' = fetches \ {f}
  /\ IF ~Falsy(fetched(f, available).error)
       THEN /\ viewError' = fetched(f, available).error.v
            /\ UNCHANGED <<list, hasMore, offset>>
       ELSE /\ list' = list \o fetched(f, available).data.v
            /\ hasMore' = isFullPage(Len(fetched(f, available).data.v))
            /\ offset' = offset + PageSize
            /\ UNCHANGED viewError
  /\ loadingMore' = FALSE
  /\ UNCHANGED <<viewFilter, contentOpacity, fadeTimeoutRef, timers, loading, scroll,
                 sinceSelection, history>>
  /\ UNCHANGED <<clickVars, storeVars, served, write>>

LoadServed == \E f \in fetches, available \in BOOLEAN : loadComments_served(f, available)
LoadMoreServed == \E f \in fetches, available \in BOOLEAN : loadMoreComments_served(f, available)

\* C24: after any sequence of initial load, load more and successful
\* submissions (the backend returning the top-level comments newest first, by
\* offset) no comment_id is shown twice in the list.
C24_NoCommentShownTwice ==
  \A i, j \in DOMAIN list : i # j => list[i].comment_id # list[j].comment_id

\* C25: whenever the active view filter is an offering and no load is in
\* flight, every comment of the list shown has the level and the subject of
\* that offering, whatever loads (those served by the basic fetch included),
\* load-more clicks and submissions came before.
C25_ListMatchesFilter ==
  (viewFilter # S_all /\ fetches = {} /\ ~loading /\ ~loadingMore) =>
    \A i \in DOMAIN list :
      /\ list[i].level = activeFilter(viewFilter).level
      /\ list[i].subject = activeFilter(viewFilter).subject

-----------------------------------------------------------------------------
(* Pure functions of the comment section and of commentService, applied to *)
(* inputs drawn from bounded sets                                          *)

S_K1        == <<"K","1">>
S_K2        == <<"K","2">>
S_Chemistry == <<"C","h","e","m","i","s","t","r","y">>

MaxOfferings == 3

\* centre.offerings: known and unknown levels and subjects, a missing level
CentreOfferings ==
  {[level |-> l, subject |-> sub] :
     l \in {JsStr(S_P1), JsStr(S_K1), JsStr(S_K2), JsUndef},
     sub \in {JsStr(S_Chemistry), JsStr(S_English), JsStr(S_Maths)}}

OfferingLists == UNION {[1..n -> CentreOfferings] : n \in 0..MaxOfferings}

\* CommentSection.jsx lines 78-135: the two memoised lists of a centre
CommentSection_offerings ==
  /\ served = NotServed
  /\ \E centreOfferings \in OfferingLists :
       served' = Served("offerings", <<centreOfferings>>, <<>>, <<>>,
                        [offerings |-> sortedOfferings(centreOfferings),
                         groupedOfferings |->
                           groupedOfferings(sortedOfferings(centreOfferings))])
  /\ UNCHANGED <<clickVars, storeVars, viewVars, write>>

Repeat(c, n) == [i \in 1..n |-> c]

\* texts and usernames at and around the limits, blank, and with a link
ValidateTexts ==
  {<<>>, T_blank, S_hi, T_link,
   Repeat("a", MaxCommentLength), Repeat("a", MaxCommentLength + 1),
   Repeat(" ", MaxCommentLength + 1),
   T_link \o <<" ">> \o Repeat("a", MaxCommentLength)}

ValidateUsernames ==
  {<<>>, T_blank, S_bob, T_link,
   Repeat("b", MaxUsernameLength), Repeat("b", MaxUsernameLength + 1),
   Repeat(" ", MaxUsernameLength + 1)}

\* part_000 lines 125-149 applied to a text and a username
ValidateComment ==
  /\ served = NotServed
  /\ \E text \in ValidateTexts, username \in ValidateUsernames :
       served' = Served("validateComment", <<text, username>>, <<>>, <<>>,
                        validateComment(text, username))
  /\ UNCHANGED <<clickVars, storeVars, viewVars, write>>

MaxTextLength == 5

SanitizeChars == {"<", ">", " ", "a"}

S_scriptPair == S_scriptOpen \o <<">","a">> \o S_scriptClose
S_scriptSplit == <<"<","s","c","r","<","b",">","i","p","t",">","a">> \o S_scriptClose

\* strings of angle brackets, blanks and letters, nested and unbalanced ones
\* included, and two with script elements
SanitizeInputs ==
  {JsUndef, JsNull, JsStr(S_scriptPair), JsStr(S_scriptSplit)}
  \cup {JsStr(x) : x \in UNION {[1..n -> SanitizeChars] : n \in 0..MaxTextLength}}

\* part_000 lines 93-106 applied once, and again to its own result
SanitizeText ==
  /\ served = NotServed
  /\ \E text \in SanitizeInputs :
       served' = Served("sanitizeText", <<text>>, <<>>, <<>>,
                        [once  |-> sanitizeText(text),
                         twice |-> sanitizeText(JsStr(sanitizeText(text)))])
  /\ UNCHANGED <<clickVars, storeVars, viewVars, write>>

\* a comes before b in a canonical list, values not in the list last and in
\* lexicographic order among themselves
Before(order, a, b) ==
  \/ orderIndex(order, a) < orderIndex(order, b)
  \/ /\ orderIndex(order, a) = UnknownRank
     /\ orderIndex(order, b) = UnknownRank
     /\ localeCompare(a, b) < 0

\* C15: the offerings list of a centre holds each (level, subject) pair of the
\* centre's data at most once and is ordered level-major, subject-minor: the
\* offerings of one level are contiguous, levels follow LEVEL_ORDER with
\* unrecognised levels last in lexicographic order, and within a level
\* subjects follow SUBJECT_ORDER with unrecognised subjects last in
\* lexicographic order.
C15_OfferingsLevelMajor ==
  served.op = "offerings" =>
    LET given == served.args[1]
        o == served.outcome.offerings
    IN /\ \A i \in DOMAIN o :
            \E k \in DOMAIN given :
              given[k].level = o[i].level /\ given[k].subject = o[i].subject
       /\ \A i, j \in DOMAIN o :
            i < j => <<o[i].level, o[i].subject>> # <<o[j].level, o[j].subject>>
       /\ \A i, j, k \in DOMAIN o :
            (i < j /\ j < k /\ o[i].level = o[k].level) => o[j].level = o[i].level
       /\ \A i, j \in DOMAIN o :
            (i < j /\ o[i].level # o[j].level) =>
              Before(LEVEL_ORDER, o[i].level.v, o[j].level.v)
       /\ \A i, j \in DOMAIN o :
            (i < j /\ o[i].level = o[j].level) =>
              Before(SUBJECT_ORDER, o[i].subject.v, o[j].subject.v)

C17_Blank(x) == \A i \in DOMAIN x : x[i] \in WhiteSpace

\* the messages of the conditions that (text, username) violates
C17_Violated(text, username) ==
  {m \in {"Comment cannot be empty", "Comment must be 500 characters or less",
          "Comments cannot contain URLs or links", "Username is required",
          "Username must be 50 characters or less"} :
     \/ m = "Comment cannot be empty" /\ C17_Blank(text)
     \/ m = "Comment must be 500 characters or less" /\ Len(text) > 500
     \/ m = "Comments cannot contain URLs or links" /\ containsUrl(text)
     \/ m = "Username is required" /\ C17_Blank(username)
     \/ m = "Username must be 50 characters or less" /\ Len(username) > 50}

\* C17: validateComment returns exactly the violated conditions among: text
\* empty or whitespace-only, text longer than 500 characters, text contains a
\* URL, username empty or whitespace-only, username longer than 50
\* characters; it does not stop at the first violation, and a text longer than
\* 500 characters always yields a non-empty result.
C17_AllViolationsReturned ==
  served.op = "validateComment" =>
    /\ Range(served.outcome) = C17_Violated(served.args[1], served.args[2])
    /\ Len(served.outcome) = Cardinality(Range(served.outcome))
    /\ Len(served.args[1]) > 500 => served.outcome # <<>>

\* a blank text longer than 500 characters with a blank username longer than
\* 50: four violations returned together
C17_Witness ==
  /\ served.op = "validateComment"
  /\ Len(served.args[1]) = 501
  /\ Len(served.args[2]) = 51
  /\ served.outcome = <<"Comment cannot be empty",
                        "Comment must be 500 characters or less",
                        "Username is required",
                        "Username must be 50 characters or less">>

\* C18: sanitizeText is idempotent: sanitizeText(sanitizeText(x)) equals
\* sanitizeText(x) for every input, nested or unbalanced angle brackets and
\* surrounding whitespace included.
C18_SanitizeIdempotent ==
  served.op = "sanitizeText" => served.outcome.twice = served.outcome.once

\* 'a<<> ' (a nested bracket, a trailing blank) becomes 'a' and stays 'a'
C18_Witness ==
  /\ served.op = "sanitizeText"
  /\ served.args[1] = JsStr(<<"a", "<", "<", ">", " ">>)
  /\ served.outcome.once = <<"a">>
  /\ served.outcome.twice = <<"a">>

C20_Invoked == calls'["user"] # calls["user"] /\ calls["user"].pc \in {"idle", "done"}

C20_WriteStep ==
  /\ C20_Invoked =>
       /\ write.username # <<>>
       /\ calls'["user"].args.username = JsStr(write.username)
       /\ \E i \in DOMAIN write.offerings :
            /\ write.offerings[i].level = calls'["user"].args.level
            /\ write.offerings[i].subject = calls'["user"].args.subject
            /\ write.offerings[i].key = write.writeClass \/ Len(write.offerings) = 1
  /\ (handleWriteReviewClick /\ write.username = <<>>) =>
       write'.showUsernamePrompt /\ ~write'.showWriteInput
  /\ (handleWriteReviewClick /\ write.username # <<>> /\ Len(write.offerings) = 1) =>
       /\ composing(write')
       /\ write'.writeClass = write.offerings[1].key
  /\ (handleCommentSubmit_answer /\ calls["user"].error = <<>>) =>
       ~write'.showWriteInput /\ write'.writeClass = <<>>
  /\ (handleCommentSubmit_answer /\ calls["user"].error # <<>>) =>
       /\ write'.showWriteInput = write.showWriteInput
       /\ write'.writeClass = write.writeClass

\* C20: in the write flow createComment is invoked only with a non-empty
\* username known and a class of the centre's offerings selected; a click on
\* 'write a review' without a username opens the username prompt and not the
\* write input; a centre with exactly one offering enters composing directly
\* with that offering selected; a successful submission closes the write
\* input and clears the class, a failed one leaves the flow composing.
C20_WriteFlow == [][C20_WriteStep]_vars

\* a review was stored and shown, and a later submission of the same user
\* failed and left the write input open on the selected class
C20_Witness ==
  /\ list # <<>>
  /\ comments # {}
  /\ calls["user"].pc = "done"
  /\ calls["user"].error # <<>>
  /\ write.submit = NotSubmitting
  /\ composing(write)
  /\ write.username = S_bob

\* C19: the grouped list of a centre's sorted offerings has, for each level,
\* exactly one header entry, immediately followed by all the item entries of
\* that level: no level has two headers and every item follows the header of
\* its own level.
C19_OneHeaderPerLevel ==
  served.op = "offerings" =>
    LET g == served.outcome.groupedOfferings
        o == served.outcome.offerings
        headers == {i \in DOMAIN g : g[i].type = "header"}
        items   == {i \in DOMAIN g : g[i].type = "item"}
    IN /\ \A h, k \in headers : g[h].level = g[k].level => h = k
       /\ \A i \in DOMAIN o :
            \E k \in items : g[k].key = o[i].key /\ g[k].level = o[i].level
       /\ Cardinality(items) = Len(o)
       /\ \A k \in items :
            /\ k > 1
            /\ g[k - 1].level = g[k].level
       /\ \A h \in headers :
            h < Len(g) /\ g[h + 1].type = "item" /\ g[h + 1].level = g[h].level

InitService ==
  /\ env = JsUndef
  /\ ClickIdle
  /\ StoreIdle
  /\ ViewIdle

NextService ==
  \/ FetchComments
  \/ FetchReplies
  \/ GetReplyCount
  \/ AdminFetchAllComments
  \/ AdminToggleHiddenReturns
  \/ AdminDeleteCommentReturns
  \/ Create
  \/ ParentAnswers
  \/ InsertAnswers

SpecService == InitService /\ [][NextService]_vars

\* the write flow of a centre with no, one or two offerings, the backend
\* answering the inserts
InitWrite ==
  /\ env = JsUndef
  /\ ClickIdle
  /\ StoreIdle
  /\ viewFilter = S_all
  /\ contentOpacity = 1
  /\ fadeTimeoutRef = NoTimer
  /\ timers = {}
  /\ loading = FALSE
  /\ loadingMore = FALSE
  /\ viewError = <<>>
  /\ list = <<>>
  /\ hasMore = FALSE
  /\ offset = PageSize
  /\ scroll = [top |-> 0, savedScrollTop |-> 0, userScrolledDuringLoad |-> FALSE]
  /\ fetches = {}
  /\ sinceSelection = FadeDelay
  /\ history = <<>>
  /\ \E centreOfferings \in {<<>>, <<P1Maths>>, <<S2Eng, P1Maths, S2Eng>>} :
       \E storedUsername \in {<<>>, S_bob} :
         write = Mounted(centreOfferings, storedUsername)

NextWrite ==
  \/ handleWriteReviewClick
  \/ handleWriteClassChange
  \/ handleCancelWrite
  \/ handleUsernameRequired
  \/ handleUsernameSubmit
  \/ UsernamePrompt_onCancel
  \/ handleCommentSubmit
  \/ InsertAnswers
  \/ handleCommentSubmit_answer

SpecWrite == InitWrite /\ [][NextWrite]_vars

\* the section of a centre mounted with the class P1 Maths to show (lines
\* 141-149: the view filter is the key of that offering), its first load sent
InitFeed ==
  /\ env = JsUndef
  /\ ClickIdle
  /\ \E n \in {PageSize - 1, PageSize, PageSize + 1} : comments = Seeds(n)
  /\ nextId = 1
  /\ calls = [c \in Slots |-> IdleCall]
  /\ served = NotServed
  /\ viewFilter = filterKey(P1Maths.level, P1Maths.subject)
  /\ contentOpacity = 1
  /\ fadeTimeoutRef = NoTimer
  /\ timers = {}
  /\ loading = TRUE
  /\ loadingMore = FALSE
  /\ viewError = <<>>
  /\ list = <<>>
  /\ hasMore = FALSE
  /\ offset = 0
  /\ scroll = [top |-> 0, savedScrollTop |-> 0, userScrolledDuringLoad |-> FALSE]
  /\ fetches = {[id |-> 1, kind |-> "load", filter |-> activeFilter(viewFilter),
                 offset |-> 0, scrolled |-> FALSE]}
  /\ sinceSelection = FadeDelay
  /\ history = <<[e |-> "load", v |-> viewFilter, id |-> 1, gap |-> 0, top |-> 0]>>
  /\ \E centreOfferings \in {<<P1Maths>>, <<S2Eng, P1Maths, S2Eng>>} :
       write = Mounted(centreOfferings, S_bob)

NextFeed ==
  \/ LoadServed
  \/ LoadMore
  \/ LoadMoreServed
  \/ handleWriteReviewClick
  \/ handleWriteClassChange
  \/ handleCancelWrite
  \/ handleCommentSubmit
  \/ InsertAnswers
  \/ handleCommentSubmit_answer

SpecFeed == InitFeed /\ [][NextFeed]_vars

InitFunctions ==
  /\ env = JsUndef
  /\ ClickIdle
  /\ StoreIdle
  /\ ViewIdle

NextFunctions ==
  \/ CommentSection_offerings
  \/ ValidateComment
  \/ SanitizeText

SpecFunctions == InitFunctions /\ [][NextFunctions]_vars

=============================================================================
